---- MODULE Spec2Model ----
(***************************************************************************)
(* The CRM record store of backend/app: four tables (contacts,             *)
(* interactions, proposals, actions) in one PostgreSQL database, the crud  *)
(* functions of app/crud and the routes of app/api that call them.         *)
(*                                                                         *)
(* Every request runs in its own session (database.get_db).  A request     *)
(* first reads (the route's existence / uniqueness checks and the crud     *)
(* function's lookup by id), then writes at db.commit().  The two are      *)
(* separate steps here, so that requests of different sessions interleave; *)
(* the constraints the tables declare (foreign keys with ON DELETE CASCADE, *)
(* the unique email, NOT NULL columns) are enforced by the store at the    *)
(* commit step.                                                            *)
(***************************************************************************)
EXTENDS Integers, FiniteSets, Sequences, TLC

VARIABLES
    contacts,       \* table contacts:      id -> row
    interactions,   \* table interactions:  id -> row
    proposals,      \* table proposals:     id -> row
    actions,        \* table actions:       id -> row
    seq,            \* the last id each table's serial primary key handed out
    now,            \* the clock read by datetime.now(timezone.utc)
    req             \* per session: the request in flight or the last one answered

vars == <<contacts, interactions, proposals, actions, seq, now, req>>
tables == <<contacts, interactions, proposals, actions>>

(***************************************************************************)
(* Bounds of the model.                                                    *)
(***************************************************************************)
MaxContacts == 2
MaxInteractions == 1
MaxProposals == 1
MaxActions == 2
MaxTime == 2
MaxListed == 2      \* rows in the table a query specification reads
MaxLimit == 2
MaxRequests == 2       \* the largest limit a query is given

\* The sessions that may be open at the same time (one per request).
Sessions == {"s1", "s2"}

(***************************************************************************)
(* Values.  None is Python's None / SQL NULL in an integer or datetime     *)
(* column, NoneStr in a string or enum column.  In an update payload       *)
(* Unset / UnsetStr mark a field the request did not supply                *)
(* (model_dump(exclude_unset=True) leaves it out).                         *)
(***************************************************************************)
None == -1
Unset == -2
NoneStr == "None"
UnsetStr == "Unset"

\* Mutant: a field the payload leaves out is written as NULL.
PutStr_Overwrite(new, old) == IF new = UnsetStr THEN NoneStr ELSE new

\* setattr(db_obj, field, value) for the fields of update_data: a field the
\* payload leaves out keeps the stored value.
PutStr(new, old) == IF new = UnsetStr THEN old ELSE new
PutInt(new, old) == IF new = Unset THEN old ELSE new

Put(f, k, v) == [x \in DOMAIN f \cup {k} |-> IF x = k THEN v ELSE f[x]]
Drop(f, S) == [x \in DOMAIN f \ S |-> f[x]]

\* The database as one value, for the operators that compute a new one.
Db == [contacts |-> contacts, interactions |-> interactions,
       proposals |-> proposals, actions |-> actions, seq |-> seq]

EmptyTable == [x \in {} |-> 0]

(***************************************************************************)
(* The store's constraints (app/models).                                   *)
(***************************************************************************)
\* Mutant: the email column without its unique index.
ContactConstraints_NoUnique(db, id, row) == row.first_name # NoneStr

\* contacts: first_name NOT NULL, email UNIQUE (several NULLs allowed).
ContactConstraints(db, id, row) ==
    /\ row.first_name # NoneStr
    /\ row.email # NoneStr =>
          \A o \in DOMAIN db.contacts \ {id} : db.contacts[o].email # row.email

\* interactions: contact_id NOT NULL REFERENCES contacts, summary NOT NULL.
InteractionConstraints(db, row) ==
    /\ row.contact_id \in DOMAIN db.contacts
    /\ row.summary # NoneStr

\* proposals: contact_id NOT NULL REFERENCES contacts, title, status NOT NULL.
ProposalConstraints(db, row) ==
    /\ row.contact_id \in DOMAIN db.contacts
    /\ row.title # NoneStr
    /\ row.status # NoneStr

\* Mutant: the actions table without its foreign keys.
ActionConstraints_NoForeignKey(db, row) ==
    /\ row.title # NoneStr
    /\ row.status # NoneStr

\* actions: contact_id NOT NULL REFERENCES contacts; proposal_id and
\* interaction_id nullable references; title, status NOT NULL.
ActionConstraints(db, row) ==
    /\ row.contact_id \in DOMAIN db.contacts
    /\ row.proposal_id = None \/ row.proposal_id \in DOMAIN db.proposals
    /\ row.interaction_id = None \/ row.interaction_id \in DOMAIN db.interactions
    /\ row.title # NoneStr
    /\ row.status # NoneStr

(***************************************************************************)
(* Cascades (app/models): the children's foreign keys are declared         *)
(* ON DELETE CASCADE and the parents' relationships cascade                *)
(* "all, delete-orphan", so a delete removes the row, the rows that        *)
(* reference it, and the rows that reference those.                        *)
(***************************************************************************)
\* Mutant: actions follow their contact only.
ActionsOf_ByContact(db, cs, ps, is) ==
    {a \in DOMAIN db.actions : db.actions[a].contact_id \in cs}

\* The actions that reference a contact of cs, a proposal of ps or an
\* interaction of is.
ActionsOf(db, cs, ps, is) ==
    {a \in DOMAIN db.actions : \/ db.actions[a].contact_id \in cs
                               \/ db.actions[a].proposal_id \in ps
                               \/ db.actions[a].interaction_id \in is}

DeleteProposalRows(db, p) ==
    [db EXCEPT !.proposals = Drop(@, {p}),
               !.actions = Drop(@, ActionsOf(db, {}, {p}, {}))]

DeleteInteractionRows(db, i) ==
    [db EXCEPT !.interactions = Drop(@, {i}),
               !.actions = Drop(@, ActionsOf(db, {}, {}, {i}))]

\* Mutant: the contact's relationships without cascade.
DeleteContactRows_ContactOnly(db, c) ==
    [db EXCEPT !.contacts = Drop(@, {c})]

DeleteContactRows(db, c) ==
    LET is == {i \in DOMAIN db.interactions : db.interactions[i].contact_id = c}
        ps == {q \in DOMAIN db.proposals : db.proposals[q].contact_id = c}
    IN  [db EXCEPT !.contacts = Drop(@, {c}),
                   !.interactions = Drop(@, is),
                   !.proposals = Drop(@, ps),
                   !.actions = Drop(@, ActionsOf(db, {c}, ps, is))]

(***************************************************************************)
(* Requests.  req[s] is [pc, op, id, data, stamp, code]: pc is "idle"      *)
(* before the session's first request, "commit" between a request's reads  *)
(* and its db.commit(), "done" once it is answered with the HTTP status    *)
(* code (500: an exception of the store reached the caller).  data is the  *)
(* request's payload; stamp is the completed_at that update_action added   *)
(* to its update_data, Unset when it added none.                           *)
(***************************************************************************)
NoData == [none |-> TRUE]
Idle == [pc |-> "idle", op |-> "none", id |-> None, data |-> NoData,
         stamp |-> Unset, code |-> 0]
Stamped(op, id, data, stamp) ==
    [pc |-> "commit", op |-> op, id |-> id, data |-> data, stamp |-> stamp,
     code |-> 0]
Pending(op, id, data) == Stamped(op, id, data, Unset)
Answered(op, id, data, code) ==
    [pc |-> "done", op |-> op, id |-> id, data |-> data, stamp |-> Unset,
     code |-> code]

(***************************************************************************)
(* Contacts (app/crud/contact.py, app/api/contacts.py).                    *)
(***************************************************************************)
\* Optional[Contact] as the set of the ids found: {} is None.
get_contact(db, contact_id) == {c \in DOMAIN db.contacts : c = contact_id}

get_contact_by_email(db, email) ==
    {c \in DOMAIN db.contacts : db.contacts[c].email = email}

\* POST /contacts/: the email lookup, then crud.create_contact.
create_contact(db, contact) ==
    IF /\ contact.email # NoneStr
       /\ get_contact_by_email(db, contact.email) # {}
    THEN Answered("create_contact", None, contact, 400)
    ELSE Pending("create_contact", None, contact)

\* crud.create_contact: db.add, db.commit.
crud_create_contact(db, contact) ==
    LET id == db.seq.contacts + 1
    IN  IF ContactConstraints(db, id, contact)
        THEN [db |-> [db EXCEPT !.contacts = Put(@, id, contact),
                                !.seq.contacts = id],
              code |-> 201]
        ELSE [db |-> db, code |-> 500]

\* Mutant: the email lookup without "existing.id != contact_id".
update_contact_AnyHolder(db, contact_id, contact_update) ==
    IF /\ contact_update.email \notin {UnsetStr, NoneStr}
       /\ get_contact_by_email(db, contact_update.email) # {}
    THEN Answered("update_contact", contact_id, contact_update, 400)
    ELSE IF get_contact(db, contact_id) = {}
    THEN Answered("update_contact", contact_id, contact_update, 404)
    ELSE Pending("update_contact", contact_id, contact_update)

\* PUT /contacts/{contact_id}: the email lookup, then crud.update_contact's
\* get_contact.
update_contact(db, contact_id, contact_update) ==
    IF /\ contact_update.email \notin {UnsetStr, NoneStr}
       /\ \E e \in get_contact_by_email(db, contact_update.email) :
             e # contact_id
    THEN Answered("update_contact", contact_id, contact_update, 400)
    ELSE IF get_contact(db, contact_id) = {}
    THEN Answered("update_contact", contact_id, contact_update, 404)
    ELSE Pending("update_contact", contact_id, contact_update)

\* crud.update_contact: setattr of every field of update_data, db.commit.
\* The UPDATE of a row another session deleted meanwhile fails.
\* Mutant: each field written in a transaction of its own.
crud_update_contact_FieldWise(db, contact_id, update_data) ==
    IF contact_id \notin DOMAIN db.contacts
    THEN [db |-> db, code |-> 500]
    ELSE LET old == db.contacts[contact_id]
             row == [first_name |-> PutStr(update_data.first_name, old.first_name),
                     email |-> PutStr(update_data.email, old.email)]
             part == [old EXCEPT !.email = row.email]
         IN  IF ContactConstraints(db, contact_id, row)
             THEN [db |-> [db EXCEPT !.contacts[contact_id] = row], code |-> 200]
             ELSE IF ContactConstraints(db, contact_id, part)
             THEN [db |-> [db EXCEPT !.contacts[contact_id] = part], code |-> 500]
             ELSE [db |-> db, code |-> 500]

\* crud.update_contact: setattr for each field of update_data, db.commit.
crud_update_contact(db, contact_id, update_data) ==
    IF contact_id \notin DOMAIN db.contacts
    THEN [db |-> db, code |-> 500]
    ELSE LET old == db.contacts[contact_id]
             row == [first_name |-> PutStr(update_data.first_name, old.first_name),
                     email |-> PutStr(update_data.email, old.email)]
         IN  IF ContactConstraints(db, contact_id, row)
             THEN [db |-> [db EXCEPT !.contacts[contact_id] = row], code |-> 200]
             ELSE [db |-> db, code |-> 500]

\* DELETE /contacts/{contact_id}: crud.delete_contact's get_contact.
delete_contact(db, contact_id) ==
    IF get_contact(db, contact_id) = {}
    THEN Answered("delete_contact", contact_id, NoData, 404)
    ELSE Pending("delete_contact", contact_id, NoData)

\* crud.delete_contact: db.delete, db.commit.
crud_delete_contact(db, contact_id) ==
    [db |-> DeleteContactRows(db, contact_id), code |-> 204]

(***************************************************************************)
(* Interactions (app/crud/interaction.py, app/api/interactions.py).        *)
(***************************************************************************)
get_interaction(db, interaction_id) ==
    {i \in DOMAIN db.interactions : i = interaction_id}

\* Mutant: the route without "Verify contact exists".
create_interaction_Unverified(db, interaction) ==
    Pending("create_interaction", None, interaction)

\* POST /interactions/: "Verify contact exists", then crud.create_interaction.
create_interaction(db, interaction) ==
    IF get_contact(db, interaction.contact_id) = {}
    THEN Answered("create_interaction", None, interaction, 404)
    ELSE Pending("create_interaction", None, interaction)

crud_create_interaction(db, interaction) ==
    LET id == db.seq.interactions + 1
    IN  IF InteractionConstraints(db, interaction)
        THEN [db |-> [db EXCEPT !.interactions = Put(@, id, interaction),
                                !.seq.interactions = id],
              code |-> 201]
        ELSE [db |-> db, code |-> 500]

\* PUT /interactions/{interaction_id}: crud.update_interaction's lookup.
update_interaction(db, interaction_id, interaction_update) ==
    IF get_interaction(db, interaction_id) = {}
    THEN Answered("update_interaction", interaction_id, interaction_update, 404)
    ELSE Pending("update_interaction", interaction_id, interaction_update)

crud_update_interaction(db, interaction_id, update_data) ==
    IF interaction_id \notin DOMAIN db.interactions
    THEN [db |-> db, code |-> 500]
    ELSE LET old == db.interactions[interaction_id]
             row == [contact_id |-> old.contact_id,
                     summary |-> PutStr(update_data.summary, old.summary),
                     outcome |-> PutStr(update_data.outcome, old.outcome)]
         IN  IF InteractionConstraints(db, row)
             THEN [db |-> [db EXCEPT !.interactions[interaction_id] = row],
                   code |-> 200]
             ELSE [db |-> db, code |-> 500]

\* DELETE /interactions/{interaction_id}.
delete_interaction(db, interaction_id) ==
    IF get_interaction(db, interaction_id) = {}
    THEN Answered("delete_interaction", interaction_id, NoData, 404)
    ELSE Pending("delete_interaction", interaction_id, NoData)

crud_delete_interaction(db, interaction_id) ==
    [db |-> DeleteInteractionRows(db, interaction_id), code |-> 204]

(***************************************************************************)
(* Proposals (app/crud/proposal.py, app/api/proposals.py).                 *)
(***************************************************************************)
get_proposal(db, proposal_id) == {q \in DOMAIN db.proposals : q = proposal_id}

\* POST /proposals/: "Verify contact exists", then crud.create_proposal.
create_proposal(db, proposal) ==
    IF get_contact(db, proposal.contact_id) = {}
    THEN Answered("create_proposal", None, proposal, 404)
    ELSE Pending("create_proposal", None, proposal)

crud_create_proposal(db, proposal) ==
    LET id == db.seq.proposals + 1
    IN  IF ProposalConstraints(db, proposal)
        THEN [db |-> [db EXCEPT !.proposals = Put(@, id, proposal),
                                !.seq.proposals = id],
              code |-> 201]
        ELSE [db |-> db, code |-> 500]

\* PUT /proposals/{proposal_id}: crud.update_proposal's lookup.
update_proposal(db, proposal_id, proposal_update) ==
    IF get_proposal(db, proposal_id) = {}
    THEN Answered("update_proposal", proposal_id, proposal_update, 404)
    ELSE Pending("update_proposal", proposal_id, proposal_update)

\* Mutant: an update that also marks a proposal with an expiry as expired.
crud_update_proposal_Expiring(db, proposal_id, update_data) ==
    IF proposal_id \notin DOMAIN db.proposals
    THEN [db |-> db, code |-> 500]
    ELSE LET old == db.proposals[proposal_id]
             row == [old EXCEPT
                       !.title = PutStr(update_data.title, @),
                       !.status = IF "expires_at" \in DOMAIN old
                                  THEN "expired"
                                  ELSE PutStr(update_data.status, @)]
         IN  IF ProposalConstraints(db, row)
             THEN [db |-> [db EXCEPT !.proposals[proposal_id] = row], code |-> 200]
             ELSE [db |-> db, code |-> 500]

\* crud.update_proposal: setattr for each field of update_data, db.commit.
crud_update_proposal(db, proposal_id, update_data) ==
    IF proposal_id \notin DOMAIN db.proposals
    THEN [db |-> db, code |-> 500]
    ELSE LET old == db.proposals[proposal_id]
             row == [old EXCEPT !.title = PutStr(update_data.title, @),
                                !.status = PutStr(update_data.status, @)]
         IN  IF ProposalConstraints(db, row)
             THEN [db |-> [db EXCEPT !.proposals[proposal_id] = row], code |-> 200]
             ELSE [db |-> db, code |-> 500]

\* DELETE /proposals/{proposal_id}.
delete_proposal(db, proposal_id) ==
    IF get_proposal(db, proposal_id) = {}
    THEN Answered("delete_proposal", proposal_id, NoData, 404)
    ELSE Pending("delete_proposal", proposal_id, NoData)

crud_delete_proposal(db, proposal_id) ==
    [db |-> DeleteProposalRows(db, proposal_id), code |-> 204]

(***************************************************************************)
(* Actions (app/crud/action.py, app/api/actions.py).                       *)
(***************************************************************************)
get_action(db, action_id) == {a \in DOMAIN db.actions : a = action_id}

\* POST /actions/: "Verify contact exists" (proposal_id and interaction_id
\* are not looked up), then crud.create_action.
create_action(db, action) ==
    IF get_contact(db, action.contact_id) = {}
    THEN Answered("create_action", None, action, 404)
    ELSE Pending("create_action", None, action)

\* Action(**action.model_dump()): ActionCreate has no completed_at.
crud_create_action(db, action) ==
    LET id == db.seq.actions + 1
        row == [contact_id |-> action.contact_id,
                proposal_id |-> action.proposal_id,
                interaction_id |-> action.interaction_id,
                title |-> action.title,
                status |-> action.status,
                completed_at |-> None]
    IN  IF ActionConstraints(db, row)
        THEN [db |-> [db EXCEPT !.actions = Put(@, id, row), !.seq.actions = id],
              code |-> 201]
        ELSE [db |-> db, code |-> 500]

\* Mutant: the stamp without "if not db_action.completed_at".
completed_at_stamp_Always(db, action_id, action_update, t) ==
    IF action_update.status = "completed" THEN t ELSE Unset

\* crud.update_action, "If status is being changed to completed, set
\* completed_at": the stamp for update_data, when status is set to
\* completed and the row read has no completed_at.
completed_at_stamp(db, action_id, action_update, t) ==
    IF /\ action_update.status = "completed"
       /\ db.actions[action_id].completed_at = None
    THEN t
    ELSE Unset

\* update_data: the supplied fields, completed_at replaced by the stamp.
update_data_of(action_update, stamp) ==
    IF stamp = Unset THEN action_update
                     ELSE [action_update EXCEPT !.completed_at = stamp]

\* PUT /actions/{action_id}.
update_action(db, t, action_id, action_update) ==
    IF get_action(db, action_id) = {}
    THEN Answered("update_action", action_id, action_update, 404)
    ELSE Stamped("update_action", action_id, action_update,
                 completed_at_stamp(db, action_id, action_update, t))

crud_update_action(db, action_id, update_data) ==
    IF action_id \notin DOMAIN db.actions
    THEN [db |-> db, code |-> 500]
    ELSE LET old == db.actions[action_id]
             row == [old EXCEPT
                       !.proposal_id = PutInt(update_data.proposal_id, @),
                       !.interaction_id = PutInt(update_data.interaction_id, @),
                       !.title = PutStr(update_data.title, @),
                       !.status = PutStr(update_data.status, @),
                       !.completed_at = PutInt(update_data.completed_at, @)]
         IN  IF ActionConstraints(db, row)
             THEN [db |-> [db EXCEPT !.actions[action_id] = row], code |-> 200]
             ELSE [db |-> db, code |-> 500]

\* Mutant: the delete without "if not db_action: return False".
delete_action_Unchecked(db, action_id) ==
    Pending("delete_action", action_id, NoData)

\* DELETE /actions/{action_id}.
delete_action(db, action_id) ==
    IF get_action(db, action_id) = {}
    THEN Answered("delete_action", action_id, NoData, 404)
    ELSE Pending("delete_action", action_id, NoData)

crud_delete_action(db, action_id) ==
    [db |-> [db EXCEPT !.actions = Drop(@, {action_id})], code |-> 204]

(***************************************************************************)
(* A request [op, id, data], its reads and its commit.                     *)
(***************************************************************************)
Req(op, id, data) == [op |-> op, id |-> id, data |-> data]

\* The route handler up to db.commit(): the request is answered (a 4xx),
\* or its write is in flight.
route(db, t, r) ==
    CASE r.op = "create_contact" -> create_contact(db, r.data)
      [] r.op = "update_contact" -> update_contact(db, r.id, r.data)
      [] r.op = "delete_contact" -> delete_contact(db, r.id)
      [] r.op = "create_interaction" -> create_interaction(db, r.data)
      [] r.op = "update_interaction" -> update_interaction(db, r.id, r.data)
      [] r.op = "delete_interaction" -> delete_interaction(db, r.id)
      [] r.op = "create_proposal" -> create_proposal(db, r.data)
      [] r.op = "update_proposal" -> update_proposal(db, r.id, r.data)
      [] r.op = "delete_proposal" -> delete_proposal(db, r.id)
      [] r.op = "create_action" -> create_action(db, r.data)
      [] r.op = "update_action" -> update_action(db, t, r.id, r.data)
      [] r.op = "delete_action" -> delete_action(db, r.id)

\* db.commit() of the write r: the new database and the status code.
commit(db, r) ==
    CASE r.op = "create_contact" -> crud_create_contact(db, r.data)
      [] r.op = "update_contact" -> crud_update_contact(db, r.id, r.data)
      [] r.op = "delete_contact" -> crud_delete_contact(db, r.id)
      [] r.op = "create_interaction" -> crud_create_interaction(db, r.data)
      [] r.op = "update_interaction" -> crud_update_interaction(db, r.id, r.data)
      [] r.op = "delete_interaction" -> crud_delete_interaction(db, r.id)
      [] r.op = "create_proposal" -> crud_create_proposal(db, r.data)
      [] r.op = "update_proposal" -> crud_update_proposal(db, r.id, r.data)
      [] r.op = "delete_proposal" -> crud_delete_proposal(db, r.id)
      [] r.op = "create_action" -> crud_create_action(db, r.data)
      [] r.op = "update_action" ->
            crud_update_action(db, r.id, update_data_of(r.data, r.stamp))
      [] r.op = "delete_action" -> crud_delete_action(db, r.id)

\* The requests that write.
Writes ==
    {"create_contact", "update_contact", "delete_contact",
     "create_interaction", "update_interaction", "delete_interaction",
     "create_proposal", "update_proposal", "delete_proposal",
     "create_action", "update_action", "delete_action"}

\* The model's bound on the ids a table hands out: an insert is accepted
\* while, with the inserts in flight, the table stays within it.
MaxRows == [contacts |-> MaxContacts, interactions |-> MaxInteractions,
            proposals |-> MaxProposals, actions |-> MaxActions]
TableOf(op) ==
    CASE op = "create_contact" -> "contacts"
      [] op = "create_interaction" -> "interactions"
      [] op = "create_proposal" -> "proposals"
      [] op = "create_action" -> "actions"
      [] OTHER -> "none"
Room(r) ==
    TableOf(r.op) # "none" =>
        seq[TableOf(r.op)]
          + Cardinality({s \in Sessions : req[s].pc = "commit" /\ req[s].op = r.op})
          < MaxRows[TableOf(r.op)]

\* The id in the answer: of the row a create inserted (db.refresh), else
\* the id of the request.
ReturnedId(r, out) ==
    IF out.code = 201 THEN out.db.seq[TableOf(r.op)] ELSE r.id

Store(db) ==
    /\ contacts' = db.contacts
    /\ interactions' = db.interactions
    /\ proposals' = db.proposals
    /\ actions' = db.actions
    /\ seq' = db.seq

\* Session s takes request r and runs its handler up to db.commit().
Receive(s, r) ==
    /\ req[s].pc # "commit"
    /\ Room(r)
    /\ req' = [req EXCEPT ![s] = route(Db, now, r)]
    /\ UNCHANGED <<contacts, interactions, proposals, actions, seq, now>>

\* db.commit() of the request session s has in flight.
Commit(s) ==
    /\ req[s].pc = "commit"
    /\ LET out == commit(Db, req[s])
       IN  /\ Store(out.db)
           /\ req' = [req EXCEPT ![s] =
                         Answered(@.op, ReturnedId(@, out), @.data, out.code)]
    /\ now' = now

\* Sequential use: session s runs the whole handler of request r, its
\* reads and its commit, with no other session's step in between.
Serve(s, r) ==
    /\ req[s].pc # "commit"
    /\ Room(r)
    /\ LET a == route(Db, now, r)
           out == IF a.pc = "done" THEN [db |-> Db, code |-> a.code]
                                   ELSE commit(Db, a)
       IN  /\ Store(out.db)
           /\ req' = [req EXCEPT ![s] =
                         Answered(a.op, ReturnedId(a, out), a.data, out.code)]
    /\ now' = now

\* Time passes.
Tick ==
    /\ now < MaxTime
    /\ now' = now + 1
    /\ UNCHANGED <<contacts, interactions, proposals, actions, seq, req>>

Init ==
    /\ contacts = EmptyTable
    /\ interactions = EmptyTable
    /\ proposals = EmptyTable
    /\ actions = EmptyTable
    /\ seq = [contacts |-> 0, interactions |-> 0, proposals |-> 0, actions |-> 0]
    /\ now = 1
    /\ req = [s \in Sessions |-> Idle]

(***************************************************************************)
(* Contact requests of concurrent sessions.                                *)
(***************************************************************************)
Emails == {"a@x", "b@x"}
ContactCreates == [first_name : {"Ann"}, email : {NoneStr} \cup Emails]
\* Updates of the email alone.
EmailUpdates == [first_name : {UnsetStr}, email : {NoneStr} \cup Emails]

ContactRequest(s) ==
    \/ \E c \in ContactCreates : Receive(s, Req("create_contact", None, c))
    \/ \E id \in 1..MaxContacts, u \in EmailUpdates :
          Receive(s, Req("update_contact", id, u))
    \/ \E id \in 1..MaxContacts : Receive(s, Req("delete_contact", id, NoData))

NextContacts == \E s \in Sessions : ContactRequest(s) \/ Commit(s)

SpecContacts == Init /\ [][NextContacts]_vars

(***************************************************************************)
(* Contact requests in sequential use: one request at a time.              *)
(***************************************************************************)
ContactUpdates ==
    [first_name : {UnsetStr, "Bob"}, email : {UnsetStr, NoneStr} \cup Emails]

NextContactsSeq ==
    \/ \E c \in ContactCreates : Serve("s1", Req("create_contact", None, c))
    \/ \E id \in 1..MaxContacts, u \in ContactUpdates :
          Serve("s1", Req("update_contact", id, u))
    \/ \E id \in 1..MaxContacts : Serve("s1", Req("delete_contact", id, NoData))

SpecContactsSeq == Init /\ [][NextContactsSeq]_vars

(***************************************************************************)
(* The four tables and their references in sequential use: creates and     *)
(* deletes of every kind.                                                  *)
(***************************************************************************)
PlainContacts == [first_name : {"Ann"}, email : {NoneStr}]
InteractionCreates ==
    [contact_id : 1..MaxContacts, summary : {"s1"}, outcome : {NoneStr}]
ProposalCreates ==
    [contact_id : 1..MaxContacts, title : {"t1"}, status : {"draft"}]
ActionCreates ==
    [contact_id : 1..MaxContacts,
     proposal_id : {None} \cup 1..MaxProposals,
     interaction_id : {None} \cup 1..MaxInteractions,
     title : {"t1"}, status : {"pending"}]
Next ==
    \/ \E c \in PlainContacts : Serve("s1", Req("create_contact", None, c))
    \/ \E i \in InteractionCreates : Serve("s1", Req("create_interaction", None, i))
    \/ \E q \in ProposalCreates : Serve("s1", Req("create_proposal", None, q))
    \/ \E a \in ActionCreates : Serve("s1", Req("create_action", None, a))
    \/ \E id \in 1..MaxContacts : Serve("s1", Req("delete_contact", id, NoData))
    \/ \E id \in 1..MaxInteractions :
          Serve("s1", Req("delete_interaction", id, NoData))
    \/ \E id \in 1..MaxProposals : Serve("s1", Req("delete_proposal", id, NoData))
    \/ \E id \in 1..MaxActions : Serve("s1", Req("delete_action", id, NoData))

Spec == Init /\ [][Next]_vars

(***************************************************************************)
(* The four tables and their references under concurrent sessions: every   *)
(* request is its reads, then its commit, with the other session's steps   *)
(* in between.  The children are created for the first contact, with a    *)
(* proposal named at the action's creation and an interaction named by an  *)
(* update of the action.                                                   *)
(***************************************************************************)
FirstContact == {1}
RaceInteractions ==
    [contact_id : FirstContact, summary : {"s1"}, outcome : {NoneStr}]
RaceProposals ==
    [contact_id : FirstContact, title : {"t1"}, status : {"draft"}]
RaceActions ==
    [contact_id : FirstContact,
     proposal_id : {None} \cup 1..MaxProposals,
     interaction_id : {None},
     title : {"t1"}, status : {"pending"}]
LinkUpdates ==
    [title : {UnsetStr}, status : {UnsetStr}, completed_at : {Unset},
     proposal_id : {Unset}, interaction_id : 1..MaxInteractions]

RelationRequest(s) ==
    \/ \E c \in PlainContacts : Receive(s, Req("create_contact", None, c))
    \/ \E i \in RaceInteractions : Receive(s, Req("create_interaction", None, i))
    \/ \E q \in RaceProposals : Receive(s, Req("create_proposal", None, q))
    \/ \E a \in RaceActions : Receive(s, Req("create_action", None, a))
    \/ \E id \in 1..MaxActions, u \in LinkUpdates :
          Receive(s, Req("update_action", id, u))
    \/ \E id \in 1..MaxContacts : Receive(s, Req("delete_contact", id, NoData))
    \/ \E id \in 1..MaxInteractions :
          Receive(s, Req("delete_interaction", id, NoData))
    \/ \E id \in 1..MaxProposals : Receive(s, Req("delete_proposal", id, NoData))

NextRelations == \E s \in Sessions : RelationRequest(s) \/ Commit(s)

SpecRelations == Init /\ [][NextRelations]_vars

(***************************************************************************)
(* Updates in sequential use, on a store holding records of every kind:    *)
(* two contacts, an interaction, a proposal and two actions, inserted by   *)
(* the create functions.  The requests update one kind of record while     *)
(* the other tables are as inserted, and name the ids inserted and one id  *)
(* more, which does not exist.                                             *)
(***************************************************************************)
EmptyDb ==
    [contacts |-> EmptyTable, interactions |-> EmptyTable,
     proposals |-> EmptyTable, actions |-> EmptyTable,
     seq |-> [contacts |-> 0, interactions |-> 0, proposals |-> 0, actions |-> 0]]

SeedDb ==
    LET d1 == crud_create_contact(EmptyDb, [first_name |-> "Ann", email |-> "a@x"]).db
        d2 == crud_create_contact(d1, [first_name |-> "Ann", email |-> NoneStr]).db
        d3 == crud_create_interaction(d2,
                 [contact_id |-> 1, summary |-> "s1", outcome |-> NoneStr]).db
        d4 == crud_create_proposal(d3,
                 [contact_id |-> 1, title |-> "t1", status |-> "draft"]).db
        d5 == crud_create_action(d4,
                 [contact_id |-> 1, proposal_id |-> 1, interaction_id |-> 1,
                  title |-> "t1", status |-> "pending"]).db
    IN  crud_create_action(d5,
            [contact_id |-> 2, proposal_id |-> None, interaction_id |-> None,
             title |-> "t1", status |-> "pending"]).db

InitUpdates ==
    /\ contacts = SeedDb.contacts
    /\ interactions = SeedDb.interactions
    /\ proposals = SeedDb.proposals
    /\ actions = SeedDb.actions
    /\ seq = SeedDb.seq
    /\ now = 1
    /\ req = [s \in Sessions |-> Idle]

InteractionUpdates ==
    [summary : {UnsetStr, "s2"}, outcome : {UnsetStr, NoneStr, "o2"}]
ProposalUpdates == [title : {UnsetStr, "t2"}, status : {UnsetStr, "sent"}]
ActionUpdates ==
    [title : {UnsetStr, "t2"},
     status : {UnsetStr, "pending", "completed", "cancelled"},
     completed_at : {Unset, None, 0},
     proposal_id : {Unset}, interaction_id : {Unset}]

Untouched(ts) == \A t \in ts : Db[t] = SeedDb[t]

NextUpdates ==
    \/ Tick
    \/ /\ Untouched({"interactions", "proposals", "actions"})
       /\ \E id \in 1..(SeedDb.seq.contacts + 1), u \in ContactUpdates :
             Serve("s1", Req("update_contact", id, u))
    \/ /\ Untouched({"contacts", "proposals", "actions"})
       /\ \E id \in 1..(SeedDb.seq.interactions + 1), u \in InteractionUpdates :
             Serve("s1", Req("update_interaction", id, u))
    \/ /\ Untouched({"contacts", "interactions", "actions"})
       /\ \E id \in 1..(SeedDb.seq.proposals + 1), u \in ProposalUpdates :
             Serve("s1", Req("update_proposal", id, u))
    \/ /\ Untouched({"contacts", "interactions", "proposals"})
       /\ \E id \in 1..(SeedDb.seq.actions + 1), u \in ActionUpdates :
             Serve("s1", Req("update_action", id, u))

SpecUpdates == InitUpdates /\ [][NextUpdates]_vars

(***************************************************************************)
(* Queries (the list functions, named queries and grouped counts of        *)
(* app/crud).  A query reads the committed tables and writes nothing.  Its *)
(* rows come back in the ORDER BY of the statement; among rows with equal  *)
(* sort keys the store returns any order, and not the same one in every    *)
(* statement, so a query has a set of possible results.                    *)
(***************************************************************************)
\* The answer of a query: what the function returned.
Returned(op, data, result) ==
    [pc |-> "done", op |-> op, id |-> None, data |-> data, stamp |-> Unset,
     code |-> 200, result |-> result]

\* The answer when the statement is refused by the store (the exception
\* reaches the caller).
Raised(op, data) ==
    [pc |-> "done", op |-> op, id |-> None, data |-> data, stamp |-> Unset,
     code |-> 500, result |-> <<>>]

\* "if contact_id:" and the like: None and 0 are not applied.
Truthy(v) == v # None /\ v # 0

\* Tuples of sort keys, compared column by column, ascending.
KeyLess(x, y) ==
    \E i \in 1..Len(x) : x[i] < y[i] /\ \A j \in 1..(i - 1) : x[j] = y[j]

\* .order_by(...).all(): the orders of the ids of S the statement may return
\* under the sort keys key[id].
Orderings(S, key) ==
    {o \in [1..Cardinality(S) -> S] :
        /\ \A i, j \in 1..Cardinality(S) : i # j => o[i] # o[j]
        /\ \A i, j \in 1..Cardinality(S) : i < j => ~KeyLess(key[o[j]], key[o[i]])}

\* .offset(skip).limit(limit)
Page(o, skip, limit) ==
    IF skip >= Len(o) THEN <<>>
    ELSE SubSeq(o, skip + 1, IF skip + limit < Len(o) THEN skip + limit ELSE Len(o))

\* Mutant: the priorities compared as text.
PriorityRank_Alphabetical ==
    [high |-> 1, low |-> 2, medium |-> 3, urgent |-> 4]

\* The enum ActionPriority in the order of its declaration, which is the
\* order of the store's enum type.
PriorityRank ==
    [low |-> 1, medium |-> 2, high |-> 3, urgent |-> 4]

\* order_by(Action.priority.desc(), Action.due_at.asc()): ascending order
\* puts NULL last.
ActionKey(db) ==
    [a \in DOMAIN db.actions |->
        <<0 - PriorityRank[db.actions[a].priority],
          IF db.actions[a].due_at = None THEN 1 ELSE 0,
          db.actions[a].due_at>>]

\* Mutant: NULL compared as a value.
Before_NullAsValue(column, t) == column < t

\* Action.due_at < now: a comparison with NULL selects nothing.
Before(column, t) == column # None /\ column < t
Between(column, from, to) == column # None /\ from <= column /\ column <= to

\* Mutant: overdue_only takes the place of the status filter.
ActionsFiltered_OverdueFirst(db, t, q) ==
    {a \in DOMAIN db.actions :
        /\ Truthy(q.contact_id) => db.actions[a].contact_id = q.contact_id
        /\ q.priority # NoneStr => db.actions[a].priority = q.priority
        /\ q.action_type # NoneStr => db.actions[a].action_type = q.action_type
        /\ Truthy(q.assigned_to) => db.actions[a].assigned_to = q.assigned_to
        /\ IF q.overdue_only
           THEN /\ db.actions[a].status = "pending"
                /\ Before(db.actions[a].due_at, t)
           ELSE q.status # NoneStr => db.actions[a].status = q.status}

\* crud.get_actions: the rows the filters leave.
ActionsFiltered(db, t, q) ==
    {a \in DOMAIN db.actions :
        /\ Truthy(q.contact_id) => db.actions[a].contact_id = q.contact_id
        /\ q.status # NoneStr => db.actions[a].status = q.status
        /\ q.priority # NoneStr => db.actions[a].priority = q.priority
        /\ q.action_type # NoneStr => db.actions[a].action_type = q.action_type
        /\ Truthy(q.assigned_to) => db.actions[a].assigned_to = q.assigned_to
        /\ q.overdue_only =>
              /\ db.actions[a].status = "pending"
              /\ Before(db.actions[a].due_at, t)}

\* crud.get_actions: (actions, total).
get_actions(db, t, q) ==
    {Returned("get_actions", q,
              [items |-> Page(o, q.skip, q.limit),
               total |-> Cardinality(ActionsFiltered(db, t, q))]) :
        o \in Orderings(ActionsFiltered(db, t, q), ActionKey(db))}

\* "if contact_id: query = query.filter(Action.contact_id == contact_id)"
ActionsInScope(db, contact_id) ==
    {a \in DOMAIN db.actions :
        Truthy(contact_id) => db.actions[a].contact_id = contact_id}

\* The named queries: .order_by(...).limit(limit).all() of the rows S.
ActionList(op, db, q, S) ==
    {Returned(op, q, Page(o, 0, q.limit)) : o \in Orderings(S, ActionKey(db))}

\* crud.get_actions_by_contact
get_actions_by_contact(db, q) ==
    {Returned("get_actions_by_contact", q, Page(o, q.skip, q.limit)) :
        o \in Orderings({a \in DOMAIN db.actions :
                            db.actions[a].contact_id = q.contact_id},
                        ActionKey(db))}

get_pending_actions(db, q) ==
    ActionList("get_pending_actions", db, q,
        {a \in ActionsInScope(db, q.contact_id) : db.actions[a].status = "pending"})

get_overdue_actions(db, t, q) ==
    ActionList("get_overdue_actions", db, q,
        {a \in ActionsInScope(db, q.contact_id) :
            /\ db.actions[a].status = "pending"
            /\ Before(db.actions[a].due_at, t)})

\* future_date = now + timedelta(days=days); a day is the unit of the clock.
get_upcoming_actions(db, t, q) ==
    ActionList("get_upcoming_actions", db, q,
        {a \in ActionsInScope(db, q.contact_id) :
            /\ db.actions[a].status = "pending"
            /\ Between(db.actions[a].due_at, t, t + q.days)})

\* Mutant: a group for each value that occurs in the table.
GroupCount_Dense(rows, S, column) ==
    [k \in {rows[a][column] : a \in DOMAIN rows} |->
        Cardinality({a \in S : rows[a][column] = k})]

\* query(<column>, func.count(id)).group_by(<column>).all() as a dict: a
\* group for each value that occurs in the rows S.
GroupCount(rows, S, column) ==
    [k \in {rows[a][column] : a \in S} |->
        Cardinality({a \in S : rows[a][column] = k})]

count_actions_by_status(db, q) ==
    {Returned("count_actions_by_status", q,
              GroupCount(db.actions, ActionsInScope(db, q.contact_id), "status"))}

\* db.query(Action.status, func.count(Action.id)) ... group_by(Action.action_type):
\* the store refuses a statement that selects a column which is neither
\* grouped nor aggregated.
count_actions_by_type(db, q) == {Raised("count_actions_by_type", q)}

count_actions_by_priority(db, q) ==
    {Returned("count_actions_by_priority", q,
              GroupCount(db.actions,
                  {a \in ActionsInScope(db, q.contact_id) :
                      db.actions[a].status = "pending"},
                  "priority"))}

\* crud.count_contacts_by_status
count_contacts_by_status(db, q) ==
    {Returned("count_contacts_by_status", q,
              GroupCount(db.contacts, DOMAIN db.contacts, "status"))}

\* crud.count_interactions_by_type
count_interactions_by_type(db, q) ==
    {Returned("count_interactions_by_type", q,
              GroupCount(db.interactions,
                  {i \in DOMAIN db.interactions :
                      Truthy(q.contact_id) =>
                          db.interactions[i].contact_id = q.contact_id},
                  "type"))}

\* order_by(<column>.desc()) of a NOT NULL column.
DescKey(rows, column) == [x \in DOMAIN rows |-> <<0 - rows[x][column]>>]

\* A NULL array, an omitted list parameter.
NoneList == <<NoneStr>>
Elements(l) == {l[i] : i \in DOMAIN l}

\* Mutant: arrays that share a tag.
Contains_Overlap(column, tags) ==
    column # NoneList /\ Elements(tags) \cap Elements(column) # {}

\* Contact.tags.contains(tags): the array operator @>, every element of tags
\* is an element of the column; NULL contains nothing.
Contains(column, tags) ==
    column # NoneList /\ Elements(tags) \subseteq Elements(column)

\* The strings of the model that ilike reads, letter by letter in lower case.
Lower ==
    [Ann |-> <<"a", "n", "n">>, Lee |-> <<"l", "e", "e">>,
     AN |-> <<"a", "n">>, BO |-> <<"b", "o">>]

\* column.ilike(f"%{search}%")
ILike(column, search) ==
    /\ column # NoneStr
    /\ \E i \in 0..(Len(Lower[column]) - Len(Lower[search])) :
          SubSeq(Lower[column], i + 1, i + Len(Lower[search])) = Lower[search]

\* crud.get_contacts: the rows the filters leave.
ContactsFiltered(db, q) ==
    {c \in DOMAIN db.contacts :
        /\ q.status # NoneStr => db.contacts[c].status = q.status
        /\ q.search # NoneStr =>
              \/ ILike(db.contacts[c].first_name, q.search)
              \/ ILike(db.contacts[c].last_name, q.search)
              \/ ILike(db.contacts[c].email, q.search)
              \/ ILike(db.contacts[c].company, q.search)
        /\ q.tags \notin {NoneList, <<>>} => Contains(db.contacts[c].tags, q.tags)}

\* crud.get_contacts: (contacts, total).
get_contacts(db, q) ==
    {Returned("get_contacts", q,
              [items |-> Page(o, q.skip, q.limit),
               total |-> Cardinality(ContactsFiltered(db, q))]) :
        o \in Orderings(ContactsFiltered(db, q), DescKey(db.contacts, "created_at"))}

\* crud.get_interactions: the rows the filters leave.
InteractionsFiltered(db, q) ==
    {i \in DOMAIN db.interactions :
        /\ Truthy(q.contact_id) => db.interactions[i].contact_id = q.contact_id
        /\ q.interaction_type # NoneStr =>
              db.interactions[i].type = q.interaction_type
        /\ q.start_date # None => db.interactions[i].occurred_at >= q.start_date
        /\ q.end_date # None => db.interactions[i].occurred_at <= q.end_date}

\* crud.get_interactions: (interactions, total).
get_interactions(db, q) ==
    {Returned("get_interactions", q,
              [items |-> Page(o, q.skip, q.limit),
               total |-> Cardinality(InteractionsFiltered(db, q))]) :
        o \in Orderings(InteractionsFiltered(db, q),
                        DescKey(db.interactions, "occurred_at"))}

\* crud.get_proposals: the rows the filters leave; a comparison with a NULL
\* value selects nothing.
ProposalsFiltered(db, q) ==
    {x \in DOMAIN db.proposals :
        /\ Truthy(q.contact_id) => db.proposals[x].contact_id = q.contact_id
        /\ q.status # NoneStr => db.proposals[x].status = q.status
        /\ q.min_value # None =>
              db.proposals[x].value # None /\ db.proposals[x].value >= q.min_value
        /\ q.max_value # None =>
              db.proposals[x].value # None /\ db.proposals[x].value <= q.max_value}

\* Mutant: total counted on the page.
get_proposals_PageTotal(db, q) ==
    {Returned("get_proposals", q,
              [items |-> Page(o, q.skip, q.limit),
               total |-> Len(Page(o, q.skip, q.limit))]) :
        o \in Orderings(ProposalsFiltered(db, q), DescKey(db.proposals, "created_at"))}

\* crud.get_proposals: (proposals, total).
get_proposals(db, q) ==
    {Returned("get_proposals", q,
              [items |-> Page(o, q.skip, q.limit),
               total |-> Cardinality(ProposalsFiltered(db, q))]) :
        o \in Orderings(ProposalsFiltered(db, q), DescKey(db.proposals, "created_at"))}

\* ProposalStatus, as declared.
ProposalStatuses == {"draft", "submitted", "won", "lost", "ignored", "expired"}

\* Mutant: every status counts as open.
OpenStatuses_All == ProposalStatuses

\* Proposal.status.in_([ProposalStatus.draft, ProposalStatus.submitted])
OpenStatuses == {"draft", "submitted"}

\* order_by(Proposal.expires_at.desc())
ExpiryKey(db) ==
    [q \in DOMAIN db.proposals |-> <<0 - db.proposals[q].expires_at>>]

\* crud.get_expired_proposals
get_expired_proposals(db, t, q) ==
    {Returned("get_expired_proposals", q, Page(o, 0, q.limit)) :
        o \in Orderings({x \in DOMAIN db.proposals :
                            /\ Before(db.proposals[x].expires_at, t)
                            /\ db.proposals[x].status \in OpenStatuses},
                        ExpiryKey(db))}

ProposalsInScope(db, contact_id) ==
    {x \in DOMAIN db.proposals :
        Truthy(contact_id) => db.proposals[x].contact_id = contact_id}

\* crud.count_proposals_by_status
count_proposals_by_status(db, contact_id) ==
    GroupCount(db.proposals, ProposalsInScope(db, contact_id), "status")

\* func.sum(Proposal.value) of the rows S: NULL values are skipped, and the
\* sum of no value is NULL.
RECURSIVE SumValue(_, _)
SumValue(rows, S) ==
    IF S = {} THEN 0
    ELSE LET x == CHOOSE y \in S : TRUE
         IN  (IF rows[x].value = None THEN 0 ELSE rows[x].value)
                + SumValue(rows, S \ {x})
SqlSum(rows, S) ==
    IF \A x \in S : rows[x].value = None THEN None ELSE SumValue(rows, S)

\* crud.get_total_value_by_status: "float(total) if total else 0.0"
get_total_value_by_status(db, contact_id) ==
    LET S == ProposalsInScope(db, contact_id)
    IN  [k \in {db.proposals[x].status : x \in S} |->
            LET total == SqlSum(db.proposals, {x \in S : db.proposals[x].status = k})
            IN  IF Truthy(total) THEN total ELSE 0]

\* sum(counts.values())
RECURSIVE SumOf(_, _)
SumOf(f, K) ==
    IF K = {} THEN 0
    ELSE LET k == CHOOSE y \in K : TRUE IN f[k] + SumOf(f, K \ {k})

\* Mutant: "counts[status]" for the statuses that occur only.
get_proposal_stats_Sparse(db, q) ==
    LET counts == count_proposals_by_status(db, q.contact_id)
        totals == get_total_value_by_status(db, q.contact_id)
    IN  {Returned("get_proposal_stats", q,
            [total_count |-> SumOf(counts, DOMAIN counts),
             total_value |-> SumOf(totals, DOMAIN totals),
             by_status |-> [st \in DOMAIN counts |->
                              [count |-> counts[st], total_value |-> totals[st]]]])}

\* GET /proposals/stats/by-status
get_proposal_stats(db, q) ==
    IF Truthy(q.contact_id) /\ get_contact(db, q.contact_id) = {}
    THEN {Answered("get_proposal_stats", None, q, 404)}
    ELSE LET counts == count_proposals_by_status(db, q.contact_id)
             totals == get_total_value_by_status(db, q.contact_id)
         IN  {Returned("get_proposal_stats", q,
                 [total_count |-> SumOf(counts, DOMAIN counts),
                  total_value |-> SumOf(totals, DOMAIN totals),
                  by_status |->
                     [st \in ProposalStatuses |->
                        [count |-> IF st \in DOMAIN counts THEN counts[st] ELSE 0,
                         total_value |->
                            IF st \in DOMAIN totals THEN totals[st] ELSE 0]]])}

\* The parameters of crud.get_actions, and the keyword arguments with which
\* the route list_actions calls it.
get_actions_parameters ==
    {"db", "skip", "limit", "contact_id", "status", "priority", "action_type",
     "assigned_to", "overdue_only"}
list_actions_keywords ==
    {"skip", "limit", "contact_id", "action_type", "start_date", "end_date"}

\* datetime.fromisoformat on the date strings of the model: the time, or
\* Unset for the ValueError.
fromisoformat(date_string) ==
    CASE date_string = "1970-01-01T00:00:00" -> 0
      [] date_string = "1970-01-01T00:00:01" -> 1
      [] OTHER -> Unset

\* GET /actions/: the dates are parsed (400 when one is not in ISO format),
\* crud.get_actions is called, which raises TypeError for a keyword that
\* is none of its parameters, and the page number is added to its result.
list_actions(db, t, q) ==
    IF \/ q.start_date # NoneStr /\ fromisoformat(q.start_date) = Unset
       \/ q.end_date # NoneStr /\ fromisoformat(q.end_date) = Unset
    THEN {Answered("list_actions", None, q, 400)}
    ELSE IF ~(list_actions_keywords \subseteq get_actions_parameters \ {"db"})
    THEN {Raised("list_actions", q)}
    ELSE {Returned("list_actions", q,
                   [items |-> a.result.items, total |-> a.result.total,
                    page |-> (q.skip \div q.limit) + 1, page_size |-> q.limit]) :
             a \in get_actions(db, t,
                      [skip |-> q.skip, limit |-> q.limit,
                       contact_id |-> q.contact_id, status |-> NoneStr,
                       priority |-> NoneStr, action_type |-> q.action_type,
                       assigned_to |-> None, overdue_only |-> FALSE])}

\* The query r = [op, id, data] on the tables db at time t: its possible
\* answers.
query(db, t, r) ==
    CASE r.op = "get_actions" -> get_actions(db, t, r.data)
      [] r.op = "get_actions_by_contact" -> get_actions_by_contact(db, r.data)
      [] r.op = "get_pending_actions" -> get_pending_actions(db, r.data)
      [] r.op = "get_overdue_actions" -> get_overdue_actions(db, t, r.data)
      [] r.op = "get_upcoming_actions" -> get_upcoming_actions(db, t, r.data)
      [] r.op = "count_actions_by_status" -> count_actions_by_status(db, r.data)
      [] r.op = "count_actions_by_type" -> count_actions_by_type(db, r.data)
      [] r.op = "count_actions_by_priority" -> count_actions_by_priority(db, r.data)
      [] r.op = "list_actions" -> list_actions(db, t, r.data)
      [] r.op = "count_contacts_by_status" -> count_contacts_by_status(db, r.data)
      [] r.op = "count_interactions_by_type" ->
            count_interactions_by_type(db, r.data)
      [] r.op = "get_contacts" -> get_contacts(db, r.data)
      [] r.op = "get_interactions" -> get_interactions(db, r.data)
      [] r.op = "get_proposals" -> get_proposals(db, r.data)
      [] r.op = "get_expired_proposals" -> get_expired_proposals(db, t, r.data)
      [] r.op = "count_proposals_by_status" ->
            {Returned(r.op, r.data, count_proposals_by_status(db, r.data.contact_id))}
      [] r.op = "get_total_value_by_status" ->
            {Returned(r.op, r.data, get_total_value_by_status(db, r.data.contact_id))}
      [] r.op = "get_proposal_stats" -> get_proposal_stats(db, r.data)

\* Session s serves the query r: the function runs and returns.
Query(s, r) ==
    /\ req[s].pc = "idle"
    /\ \E a \in query(Db, now, r) : req' = [req EXCEPT ![s] = a]
    /\ UNCHANGED <<contacts, interactions, proposals, actions, seq, now>>

(***************************************************************************)
(* Queries on actions: a store of two contacts and up to MaxListed         *)
(* actions, read at time 1 by one query.                                   *)
(***************************************************************************)
\* The list operations, which take skip and limit.
ListOps == {"get_contacts", "get_interactions", "get_proposals", "get_actions"}

\* The items of the pages a session has fetched so far.
Seen(a) == IF "seen" \in DOMAIN a THEN a.seen ELSE a.result.items

\* A session that lists page by page: after a page that held items it asks
\* for the next one, skip raised by limit, the other parameters kept.
NextPage(s) ==
    /\ req[s].pc = "done"
    /\ req[s].op \in ListOps
    /\ req[s].result.items # <<>>
    /\ \E a \in query(Db, now,
                      Req(req[s].op, None,
                          [req[s].data EXCEPT !.skip = @ + req[s].data.limit])) :
          req' = [req EXCEPT ![s] =
                    [seen |-> Seen(req[s]) \o a.result.items] @@ a]
    /\ UNCHANGED <<contacts, interactions, proposals, actions, seq, now>>

TwoContacts ==
    crud_create_contact(
        crud_create_contact(EmptyDb, [first_name |-> "Ann", email |-> "a@x"]).db,
        [first_name |-> "Ann", email |-> NoneStr]).db

\* Rows as create_action and update_action leave them.
QueryActionRows ==
    [contact_id : DOMAIN TwoContacts.contacts,
     proposal_id : {None}, interaction_id : {None},
     title : {"t1"},
     status : {"pending", "completed", "cancelled"},
     completed_at : {None},
     priority : {"medium"},
     action_type : {"call", "email"},
     due_at : {None, 0, 1},
     assigned_to : {None}]

Stores(rows) == UNION {[1..n -> rows] : n \in 0..MaxListed}

InitActionQueries ==
    /\ contacts = TwoContacts.contacts
    /\ interactions = EmptyTable
    /\ proposals = EmptyTable
    /\ actions \in Stores(QueryActionRows)
    /\ seq = [TwoContacts.seq EXCEPT !.actions = Cardinality(DOMAIN actions)]
    /\ now = 1
    /\ req = [s \in Sessions |-> Idle]
    /\ \A a \in DOMAIN actions : ActionConstraints(Db, actions[a])

\* Scopes: none, 0, an existing contact, an id no contact has.
ContactScopes == {None, 0, 1, TwoContacts.seq.contacts + 1}
Limits == 1..MaxLimit

ScopedLists == [contact_id : ContactScopes, limit : Limits]
UpcomingLists == [days : {1}, contact_id : ContactScopes, limit : Limits]
ScopedCounts == [contact_id : ContactScopes]
ActionLists ==
    [skip : {0}, limit : {MaxLimit}, contact_id : ContactScopes,
     status : {NoneStr, "completed"}, priority : {NoneStr},
     action_type : {NoneStr}, assigned_to : {None},
     overdue_only : {FALSE, TRUE}]

NextActionQueries ==
    \/ \E q \in ActionLists : Query("s1", Req("get_actions", None, q))
    \/ \E q \in ScopedLists : Query("s1", Req("get_pending_actions", None, q))
    \/ \E q \in ScopedLists : Query("s1", Req("get_overdue_actions", None, q))
    \/ \E q \in UpcomingLists : Query("s1", Req("get_upcoming_actions", None, q))
    \/ \E q \in ScopedCounts : Query("s1", Req("count_actions_by_status", None, q))
    \/ \E q \in ScopedCounts : Query("s1", Req("count_actions_by_type", None, q))
    \/ \E q \in ScopedCounts : Query("s1", Req("count_actions_by_priority", None, q))

SpecActionQueries == InitActionQueries /\ [][NextActionQueries]_vars

(***************************************************************************)
(* Writes the store refuses, in sequential use: on a store of two          *)
(* contacts, an interaction, a proposal and an action, updates that set a  *)
(* required column to null or an action's proposal to one that does not    *)
(* exist, creates of such actions, and deletes of the proposal.  The       *)
(* requests write one kind of record while the other tables are as seeded  *)
(* (actions and their proposal count as one kind).                         *)
(***************************************************************************)
RefusedSeed ==
    LET d1 == crud_create_contact(EmptyDb, [first_name |-> "Ann", email |-> "a@x"]).db
        d2 == crud_create_contact(d1, [first_name |-> "Ann", email |-> NoneStr]).db
        d3 == crud_create_interaction(d2,
                 [contact_id |-> 1, summary |-> "s1", outcome |-> NoneStr]).db
        d4 == crud_create_proposal(d3,
                 [contact_id |-> 1, title |-> "t1", status |-> "draft"]).db
    IN  crud_create_action(d4,
            [contact_id |-> 1, proposal_id |-> 1, interaction_id |-> 1,
             title |-> "t1", status |-> "pending"]).db

InitRefused ==
    /\ contacts = RefusedSeed.contacts
    /\ interactions = RefusedSeed.interactions
    /\ proposals = RefusedSeed.proposals
    /\ actions = RefusedSeed.actions
    /\ seq = RefusedSeed.seq
    /\ now = 1
    /\ req = [s \in Sessions |-> Idle]

\* A proposal that exists (until deleted) and one that never does.
ProposalRefs == {None, 1, RefusedSeed.seq.proposals + 1}

NullingContactUpdates ==
    [first_name : {UnsetStr, NoneStr, "Bob"}, email : {UnsetStr, "a@x", "b@x"}]
NullingInteractionUpdates ==
    [summary : {UnsetStr, NoneStr, "s2"}, outcome : {UnsetStr, "o2"}]
NullingProposalUpdates ==
    [title : {UnsetStr, NoneStr, "t2"}, status : {UnsetStr, "won"}]
RefusedActionUpdates ==
    [title : {UnsetStr, NoneStr}, status : {UnsetStr, "cancelled"},
     completed_at : {Unset}, proposal_id : {Unset} \cup ProposalRefs,
     interaction_id : {Unset}]
RefusedActionCreates ==
    [contact_id : {1, 2}, proposal_id : ProposalRefs, interaction_id : {None},
     title : {"t1"}, status : {"pending"}]

\* The tables ts are as seeded.
Unrefused(ts) == \A t \in ts : Db[t] = RefusedSeed[t]

NextRefused ==
    \/ /\ Unrefused({"interactions", "proposals", "actions"})
       /\ \E id \in DOMAIN RefusedSeed.contacts, u \in NullingContactUpdates :
             Serve("s1", Req("update_contact", id, u))
    \/ /\ Unrefused({"contacts", "proposals", "actions"})
       /\ \E id \in DOMAIN RefusedSeed.interactions,
             u \in NullingInteractionUpdates :
             Serve("s1", Req("update_interaction", id, u))
    \/ /\ Unrefused({"contacts", "interactions", "actions"})
       /\ \E id \in DOMAIN RefusedSeed.proposals, u \in NullingProposalUpdates :
             Serve("s1", Req("update_proposal", id, u))
    \/ /\ Unrefused({"contacts", "interactions"})
       /\ \E id \in 1..MaxActions, u \in RefusedActionUpdates :
             Serve("s1", Req("update_action", id, u))
    \/ /\ Unrefused({"contacts", "interactions"})
       /\ \E a \in RefusedActionCreates : Serve("s1", Req("create_action", None, a))
    \/ /\ Unrefused({"contacts", "interactions"})
       /\ \E id \in DOMAIN RefusedSeed.proposals :
             Serve("s1", Req("delete_proposal", id, NoData))

SpecRefused == InitRefused /\ [][NextRefused]_vars

(***************************************************************************)
(* The session of a request (app/database.py): get_db creates the session, *)
(* yields it to the handler and closes it in its "finally".  Here req[s]   *)
(* also counts the sessions that s has had created (opened) and closed,    *)
(* and pc is "open" once the session is created, "commit" while the write  *)
(* is in flight, "finally" when the handler has returned or raised, and    *)
(* "done" after db.close().                                                *)
(***************************************************************************)
Opened(a) == IF "opened" \in DOMAIN a THEN a.opened ELSE 0
Closed(a) == IF "closed" \in DOMAIN a THEN a.closed ELSE 0
InSession(a) == a.pc \in {"open", "commit", "finally"}

\* Mutant: "yield db; db.close()" without try/finally.
Exit_OnReturn(code) == IF code < 400 THEN "finally" ELSE "done"

\* try: yield db / finally: where get_db resumes when the handler has
\* returned or raised with the status code.
Exit(code) == "finally"

\* db = SessionLocal(); yield db
GetDb(s, r) ==
    /\ req[s].pc \in {"idle", "done"}
    /\ Opened(req[s]) < MaxRequests
    /\ TableOf(r.op) # "none" =>
          seq[TableOf(r.op)]
            + Cardinality({o \in Sessions : InSession(req[o]) /\ req[o].op = r.op})
            < MaxRows[TableOf(r.op)]
    /\ req' = [req EXCEPT ![s] =
                  [pc |-> "open", opened |-> Opened(@) + 1, closed |-> Closed(@)]
                      @@ Pending(r.op, r.id, r.data)]
    /\ UNCHANGED <<contacts, interactions, proposals, actions, seq, now>>

\* The route handler up to db.commit(), or to the HTTPException it raises.
Handler(s) ==
    /\ req[s].pc = "open"
    /\ LET a == route(Db, now, Req(req[s].op, req[s].id, req[s].data))
       IN  req' = [req EXCEPT ![s] =
                     [pc |-> IF a.pc = "done" THEN Exit(a.code) ELSE "commit",
                      opened |-> @.opened, closed |-> @.closed] @@ a]
    /\ UNCHANGED <<contacts, interactions, proposals, actions, seq, now>>

\* db.commit(): the handler returns, or the store's exception leaves it.
CommitDb(s) ==
    /\ req[s].pc = "commit"
    /\ LET out == commit(Db, req[s])
       IN  /\ Store(out.db)
           /\ req' = [req EXCEPT ![s] =
                         [pc |-> Exit(out.code),
                          opened |-> @.opened, closed |-> @.closed]
                             @@ Answered(@.op, ReturnedId(@, out), @.data, out.code)]
    /\ now' = now

\* finally: db.close()
Close(s) ==
    /\ req[s].pc = "finally"
    /\ req' = [req EXCEPT ![s].pc = "done", ![s].closed = @ + 1]
    /\ UNCHANGED <<contacts, interactions, proposals, actions, seq, now>>

SessionRequests ==
    {Req("create_contact", None, [first_name |-> "Ann", email |-> "a@x"]),
     Req("delete_contact", 1, NoData)}
        \cup {Req("update_contact", id, [first_name |-> NoneStr, email |-> UnsetStr]) :
                 id \in 1..MaxContacts}

NextSessions ==
    \E s \in Sessions :
        \/ \E r \in SessionRequests : GetDb(s, r)
        \/ Handler(s)
        \/ CommitDb(s)
        \/ Close(s)

\* The server runs a request it has accepted to its end.
FairSessions ==
    \A s \in Sessions :
        WF_vars(Handler(s)) /\ WF_vars(CommitDb(s)) /\ WF_vars(Close(s))

SpecSessions == Init /\ [][NextSessions]_vars /\ FairSessions

(***************************************************************************)
(* Queries on proposals: a store of two contacts and up to MaxListed       *)
(* proposals, read at time 1 by one query.  Amounts are whole numbers.     *)
(***************************************************************************)
QueryProposalRows ==
    [contact_id : DOMAIN TwoContacts.contacts,
     title : {"t1"},
     status : {"draft", "submitted", "won", "expired"},
     value : {None, 5},
     expires_at : {None, 0, 1}]

InitProposalQueries ==
    /\ contacts = TwoContacts.contacts
    /\ interactions = EmptyTable
    /\ proposals \in Stores(QueryProposalRows)
    /\ actions = EmptyTable
    /\ seq = [TwoContacts.seq EXCEPT !.proposals = Cardinality(DOMAIN proposals)]
    /\ now = 1
    /\ req = [s \in Sessions |-> Idle]
    /\ \A q \in DOMAIN proposals : ProposalConstraints(Db, proposals[q])

NextProposalQueries ==
    \/ \E q \in [limit : Limits] : Query("s1", Req("get_expired_proposals", None, q))
    \/ \E q \in ScopedCounts : Query("s1", Req("count_proposals_by_status", None, q))
    \/ \E q \in ScopedCounts : Query("s1", Req("get_total_value_by_status", None, q))
    \/ \E q \in ScopedCounts : Query("s1", Req("get_proposal_stats", None, q))

SpecProposalQueries == InitProposalQueries /\ [][NextProposalQueries]_vars

(***************************************************************************)
(* The list operations: a store that holds up to MaxListed records of one  *)
(* table (and the two contacts they belong to), read at time 1 by one      *)
(* session page by page from skip = 0.                                     *)
(***************************************************************************)
ListContactRows ==
    [first_name : {"Ann"}, last_name : {"Lee"}, email : {NoneStr},
     company : {NoneStr}, status : {"lead", "client"},
     tags : {NoneList, <<"vip">>, <<"vip", "tech">>},
     created_at : {0, 1}]
ListInteractionRows ==
    [contact_id : DOMAIN TwoContacts.contacts, type : {"call", "email"},
     summary : {"s1"}, outcome : {NoneStr}, occurred_at : {0, 1}]
ListProposalRows ==
    [contact_id : DOMAIN TwoContacts.contacts, title : {"t1"},
     status : {"draft", "won"}, value : {None, 5}, expires_at : {None},
     created_at : {0, 1}]
ListActionRows ==
    [contact_id : DOMAIN TwoContacts.contacts,
     proposal_id : {None}, interaction_id : {None},
     title : {"t1"}, status : {"pending", "completed"}, completed_at : {None},
     priority : {"medium", "high"}, action_type : {"call"},
     due_at : {None, 0}, assigned_to : {None}]

\* created_at is the time of the insert (server_default=func.now()) and ids
\* are handed out in the order of the inserts.
InOrder(rows) ==
    \A x, y \in DOMAIN rows :
        ("created_at" \in DOMAIN rows[x] /\ x < y)
            => rows[x].created_at <= rows[y].created_at

InitLists ==
    /\ \/ /\ contacts \in Stores(ListContactRows)
          /\ interactions = EmptyTable /\ proposals = EmptyTable
          /\ actions = EmptyTable
       \/ /\ contacts = TwoContacts.contacts
          /\ interactions \in Stores(ListInteractionRows) \ {EmptyTable}
          /\ proposals = EmptyTable /\ actions = EmptyTable
       \/ /\ contacts = TwoContacts.contacts
          /\ interactions = EmptyTable
          /\ proposals \in Stores(ListProposalRows) \ {EmptyTable}
          /\ actions = EmptyTable
       \/ /\ contacts = TwoContacts.contacts
          /\ interactions = EmptyTable /\ proposals = EmptyTable
          /\ actions \in Stores(ListActionRows) \ {EmptyTable}
    /\ seq = [contacts |-> Cardinality(DOMAIN contacts),
              interactions |-> Cardinality(DOMAIN interactions),
              proposals |-> Cardinality(DOMAIN proposals),
              actions |-> Cardinality(DOMAIN actions)]
    /\ now = 1
    /\ req = [s \in Sessions |-> Idle]
    /\ \A c \in DOMAIN contacts : ContactConstraints(Db, c, contacts[c])
    /\ InOrder(contacts) /\ InOrder(proposals)
    /\ \A i \in DOMAIN interactions : InteractionConstraints(Db, interactions[i])
    /\ \A q \in DOMAIN proposals : ProposalConstraints(Db, proposals[q])
    /\ \A a \in DOMAIN actions : ActionConstraints(Db, actions[a])

\* Scopes: none, an existing contact.
ListScopes == {None, 1}
ContactPages ==
    [skip : {0}, limit : Limits, status : {NoneStr, "lead"},
     search : {NoneStr, "AN", "BO"},
     tags : {NoneList, <<"vip">>, <<"tech", "vip">>}]
InteractionPages ==
    [skip : {0}, limit : Limits, contact_id : ListScopes,
     interaction_type : {NoneStr, "call"},
     start_date : {None, 1}, end_date : {None, 0}]
ProposalPages ==
    [skip : {0}, limit : Limits, contact_id : ListScopes,
     status : {NoneStr, "draft"}, min_value : {None, 0}, max_value : {None, 5}]
ActionPages ==
    [skip : {0}, limit : Limits, contact_id : ListScopes,
     status : {NoneStr, "completed"}, priority : {NoneStr, "high"},
     action_type : {NoneStr}, assigned_to : {None},
     overdue_only : {FALSE, TRUE}]

\* The table the store's records are of.
Listed(t) ==
    /\ \A u \in {"interactions", "proposals", "actions"} \ {t} : Db[u] = EmptyTable
    /\ (t = "contacts") = (contacts # TwoContacts.contacts)

NextLists ==
    \/ /\ Listed("contacts")
       /\ \E q \in ContactPages : Query("s1", Req("get_contacts", None, q))
    \/ /\ Listed("interactions")
       /\ \E q \in InteractionPages : Query("s1", Req("get_interactions", None, q))
    \/ /\ Listed("proposals")
       /\ \E q \in ProposalPages : Query("s1", Req("get_proposals", None, q))
    \/ /\ Listed("actions")
       /\ \E q \in ActionPages : Query("s1", Req("get_actions", None, q))
    \/ NextPage("s1")

SpecLists == InitLists /\ [][NextLists]_vars

(***************************************************************************)
(* The grouped counts, on the stores of the list operations.               *)
(***************************************************************************)
ListCounts == [contact_id : ListScopes]

NextCounts ==
    \/ /\ Listed("contacts")
       /\ Query("s1", Req("count_contacts_by_status", None, NoData))
    \/ /\ Listed("interactions")
       /\ \E q \in ListCounts :
             Query("s1", Req("count_interactions_by_type", None, q))
    \/ /\ Listed("proposals")
       /\ \E q \in ListCounts :
             Query("s1", Req("count_proposals_by_status", None, q))
    \/ /\ Listed("actions")
       /\ \E q \in ListCounts :
             Query("s1", Req("count_actions_by_status", None, q))
    \/ /\ Listed("actions")
       /\ \E q \in ListCounts :
             Query("s1", Req("count_actions_by_priority", None, q))

SpecCounts == InitLists /\ [][NextCounts]_vars

(***************************************************************************)
(* The route that lists actions, on the stores of the list operations      *)
(* that hold actions.                                                      *)
(***************************************************************************)
DateStrings == {NoneStr, "1970-01-01T00:00:00", "1970-01-01T00:00:01", "soon"}
StartDates == DateStrings \ {"1970-01-01T00:00:01"}
EndDates == DateStrings \ {"1970-01-01T00:00:00", "soon"}

ActionListRequests ==
    [skip : {0, 1}, limit : Limits, contact_id : ListScopes,
     action_type : {NoneStr, "call"},
     start_date : StartDates, end_date : EndDates]

NextActionRoutes ==
    /\ Listed("actions")
    /\ \E q \in ActionListRequests : Query("s1", Req("list_actions", None, q))

SpecActionRoutes == InitLists /\ [][NextActionRoutes]_vars

(***************************************************************************)
(* Concurrent updates of the status of the seeded actions: each session    *)
(* reads the row, and commits later, while time passes.                    *)
(***************************************************************************)
StatusUpdates ==
    [title : {UnsetStr}, status : {"completed", "cancelled"},
     completed_at : {Unset}, proposal_id : {Unset}, interaction_id : {Unset}]

NextCompletions ==
    \/ Tick
    \/ \E s \in Sessions :
          \/ \E id \in DOMAIN SeedDb.actions, u \in StatusUpdates :
                Receive(s, Req("update_action", id, u))
          \/ Commit(s)

SpecCompletions == InitUpdates /\ [][NextCompletions]_vars

(***************************************************************************)
(* The order of the lists of actions: a store of up to MaxListed pending   *)
(* actions of contact 1 with their priorities and due times, read at       *)
(* time 1.                                                                 *)
(***************************************************************************)
OrderedActionRows ==
    [contact_id : {1}, proposal_id : {None}, interaction_id : {None},
     title : {"t1"}, status : {"pending"}, completed_at : {None},
     priority : {"low", "high", "urgent"}, action_type : {"call"},
     due_at : {None, 0, 1, 2}, assigned_to : {None}]

InitActionOrder ==
    /\ contacts = TwoContacts.contacts
    /\ interactions = EmptyTable
    /\ proposals = EmptyTable
    /\ actions \in Stores(OrderedActionRows)
    /\ seq = [TwoContacts.seq EXCEPT !.actions = Cardinality(DOMAIN actions)]
    /\ now = 1
    /\ req = [s \in Sessions |-> Idle]
    /\ \A a \in DOMAIN actions : ActionConstraints(Db, actions[a])

WholeLists == [contact_id : {1}, limit : {MaxListed}]

NextActionOrder ==
    \/ \E q \in [skip : {0}, limit : {MaxListed}, contact_id : {None},
                 status : {NoneStr}, priority : {NoneStr},
                 action_type : {NoneStr}, assigned_to : {None},
                 overdue_only : {FALSE}] :
          Query("s1", Req("get_actions", None, q))
    \/ \E q \in [skip : {0}, limit : {MaxListed}, contact_id : {1}] :
          Query("s1", Req("get_actions_by_contact", None, q))
    \/ \E q \in WholeLists : Query("s1", Req("get_pending_actions", None, q))
    \/ \E q \in WholeLists : Query("s1", Req("get_overdue_actions", None, q))
    \/ \E q \in [days : {1}, contact_id : {1}, limit : {MaxListed}] :
          Query("s1", Req("get_upcoming_actions", None, q))

SpecActionOrder == InitActionOrder /\ [][NextActionOrder]_vars

(***************************************************************************)
(* Reads among writes: on a store of one proposal and one action of        *)
(* contact 1, session s1 updates them in sequential use, session s2 reads  *)
(* once, and time passes, so that an expiry or a due time goes by.         *)
(***************************************************************************)
ReadProposalRows ==
    [contact_id : {1}, title : {"t1"}, status : {"draft", "submitted"},
     value : {None, 5}, expires_at : {None, 1}, created_at : {0}]
ReadActionRows ==
    [contact_id : {1}, proposal_id : {None}, interaction_id : {None},
     title : {"t1"}, status : {"pending"}, completed_at : {None},
     priority : {"medium"}, action_type : {"call"},
     due_at : {None, 1}, assigned_to : {None}]

InitReads ==
    /\ contacts = TwoContacts.contacts
    /\ interactions = EmptyTable
    /\ proposals \in [{1} -> ReadProposalRows]
    /\ actions \in [{1} -> ReadActionRows]
    /\ seq = [TwoContacts.seq EXCEPT !.proposals = 1, !.actions = 1]
    /\ now = 1
    /\ req = [s \in Sessions |-> Idle]

Reads ==
    {Req("get_expired_proposals", None, [limit |-> MaxLimit]),
     Req("get_proposals", None,
         [skip |-> 0, limit |-> MaxLimit, contact_id |-> None,
          status |-> NoneStr, min_value |-> None, max_value |-> None]),
     Req("count_proposals_by_status", None, [contact_id |-> None]),
     Req("get_total_value_by_status", None, [contact_id |-> None]),
     Req("get_proposal_stats", None, [contact_id |-> 1]),
     Req("get_actions", None,
         [skip |-> 0, limit |-> MaxLimit, contact_id |-> None,
          status |-> NoneStr, priority |-> NoneStr, action_type |-> NoneStr,
          assigned_to |-> None, overdue_only |-> TRUE]),
     Req("get_overdue_actions", None, [contact_id |-> None, limit |-> MaxLimit]),
     Req("get_upcoming_actions", None,
         [days |-> 1, contact_id |-> None, limit |-> MaxLimit]),
     Req("count_actions_by_status", None, [contact_id |-> None]),
     Req("count_actions_by_priority", None, [contact_id |-> None])}

StatusProposalUpdates ==
    [title : {UnsetStr, "t2"}, status : {UnsetStr, "submitted", "won"}]
StatusActionUpdates ==
    [title : {UnsetStr, "t2"}, status : {UnsetStr, "completed"},
     completed_at : {Unset}, proposal_id : {Unset}, interaction_id : {Unset}]

NextReads ==
    \/ Tick
    \/ \E r \in Reads : Query("s2", r)
    \/ \E u \in StatusProposalUpdates : Serve("s1", Req("update_proposal", 1, u))
    \/ \E u \in StatusActionUpdates : Serve("s1", Req("update_action", 1, u))

SpecReads == InitReads /\ [][NextReads]_vars

(***************************************************************************)
(* The life of actions in sequential use: creates with either status,      *)
(* updates of the status, deletes, on a store of two contacts, while time  *)
(* passes.                                                                 *)
(***************************************************************************)
InitActionLife ==
    /\ contacts = TwoContacts.contacts
    /\ interactions = EmptyTable
    /\ proposals = EmptyTable
    /\ actions = EmptyTable
    /\ seq = TwoContacts.seq
    /\ now = 1
    /\ req = [s \in Sessions |-> Idle]

StatusActionCreates ==
    [contact_id : DOMAIN TwoContacts.contacts, proposal_id : {None},
     interaction_id : {None}, title : {"t1"},
     status : {"pending", "completed"}]
LifeActionUpdates ==
    [title : {UnsetStr}, status : {UnsetStr, "pending", "completed"},
     completed_at : {Unset}, proposal_id : {Unset}, interaction_id : {Unset}]

NextActionLife ==
    \/ Tick
    \/ \E a \in StatusActionCreates : Serve("s1", Req("create_action", None, a))
    \/ \E id \in 1..MaxActions, u \in LifeActionUpdates :
          Serve("s1", Req("update_action", id, u))
    \/ \E id \in 1..MaxActions : Serve("s1", Req("delete_action", id, NoData))
    \/ \E id \in DOMAIN TwoContacts.contacts :
          Serve("s1", Req("delete_contact", id, NoData))

SpecActionLife == InitActionLife /\ [][NextActionLife]_vars

(***************************************************************************)
(* Claims.  In the sequential specifications a step that leaves the clock  *)
(* alone is a request served for session "s1", and req'["s1"] is the       *)
(* request with its answer.                                                *)
(***************************************************************************)
Served(ops) == now' = now /\ req'["s1"].op \in ops

\* The records that satisfy every filter supplied with the list request that
\* a answers.  Of the names in the store, each holds "an" and none holds "bo".
Satisfying(a) ==
    CASE a.op = "get_contacts" ->
            {c \in DOMAIN contacts :
                /\ a.data.status # NoneStr => contacts[c].status = a.data.status
                /\ a.data.search # NoneStr => a.data.search = "AN"
                /\ a.data.tags # NoneList =>
                      \A i \in DOMAIN a.data.tags :
                          \E j \in DOMAIN contacts[c].tags :
                              contacts[c].tags[j] = a.data.tags[i]}
      [] a.op = "get_interactions" ->
            {i \in DOMAIN interactions :
                /\ a.data.contact_id # None =>
                      interactions[i].contact_id = a.data.contact_id
                /\ a.data.interaction_type # NoneStr =>
                      interactions[i].type = a.data.interaction_type
                /\ a.data.start_date # None =>
                      interactions[i].occurred_at >= a.data.start_date
                /\ a.data.end_date # None =>
                      interactions[i].occurred_at <= a.data.end_date}
      [] a.op = "get_proposals" ->
            {x \in DOMAIN proposals :
                /\ a.data.contact_id # None =>
                      proposals[x].contact_id = a.data.contact_id
                /\ a.data.status # NoneStr => proposals[x].status = a.data.status
                /\ a.data.min_value # None =>
                      /\ proposals[x].value # None
                      /\ proposals[x].value >= a.data.min_value
                /\ a.data.max_value # None =>
                      /\ proposals[x].value # None
                      /\ proposals[x].value <= a.data.max_value}
      [] a.op = "get_actions" ->
            {x \in DOMAIN actions :
                /\ a.data.contact_id # None =>
                      actions[x].contact_id = a.data.contact_id
                /\ a.data.status # NoneStr => actions[x].status = a.data.status
                /\ a.data.priority # NoneStr =>
                      actions[x].priority = a.data.priority
                /\ a.data.overdue_only =>
                      /\ actions[x].status = "pending"
                      /\ actions[x].due_at # None
                      /\ actions[x].due_at < now}

\* C1: when delete_contact(c) succeeds on an existing contact c, then in the
\* resulting state get_contact(c) finds nothing and no interaction, proposal
\* or action has contact_id = c, whatever dependents c had.
C1_DeleteContactCascades ==
    [][\A c \in DOMAIN contacts :
          (/\ Served({"delete_contact"})
           /\ req'["s1"].id = c
           /\ req'["s1"].code = 204)
          => /\ get_contact(Db', c) = {}
             /\ \A i \in DOMAIN interactions' : interactions'[i].contact_id # c
             /\ \A q \in DOMAIN proposals' : proposals'[q].contact_id # c
             /\ \A a \in DOMAIN actions' : actions'[a].contact_id # c]_vars

\* C1 witness: contact 1 was deleted after an interaction, a proposal and two
\* actions were inserted, none of which is left, while contact 2 is present.
C1_Witness ==
    /\ req["s1"].op = "delete_contact" /\ req["s1"].code = 204
    /\ req["s1"].id = 1
    /\ DOMAIN contacts = {2}
    /\ seq.interactions = 1 /\ seq.proposals = 1 /\ seq.actions = 2
    /\ DOMAIN interactions = {} /\ DOMAIN proposals = {} /\ DOMAIN actions = {}

\* C2: when delete_proposal(p) (delete_interaction(i)) succeeds on an
\* existing record, the actions left are exactly the actions that did not
\* reference it, each unchanged, and the contacts, the interactions
\* (proposals) and the other proposals (interactions) are unchanged.
C2_DeleteProposalOrInteraction ==
    [][/\ \A p \in DOMAIN proposals :
             (/\ Served({"delete_proposal"})
              /\ req'["s1"].id = p
              /\ req'["s1"].code = 204)
             => /\ DOMAIN actions' =
                      {a \in DOMAIN actions : actions[a].proposal_id # p}
                /\ \A a \in DOMAIN actions' : actions'[a] = actions[a]
                /\ DOMAIN proposals' = DOMAIN proposals \ {p}
                /\ \A q \in DOMAIN proposals' : proposals'[q] = proposals[q]
                /\ UNCHANGED <<contacts, interactions>>
       /\ \A i \in DOMAIN interactions :
             (/\ Served({"delete_interaction"})
              /\ req'["s1"].id = i
              /\ req'["s1"].code = 204)
             => /\ DOMAIN actions' =
                      {a \in DOMAIN actions : actions[a].interaction_id # i}
                /\ \A a \in DOMAIN actions' : actions'[a] = actions[a]
                /\ DOMAIN interactions' = DOMAIN interactions \ {i}
                /\ \A k \in DOMAIN interactions' : interactions'[k] = interactions[k]
                /\ UNCHANGED <<contacts, proposals>>]_vars

\* C2 witness: proposal 1 was deleted; of the two actions inserted, the one
\* left does not reference it, and its contact and the interaction are
\* present.
C2_Witness ==
    /\ req["s1"].op = "delete_proposal" /\ req["s1"].code = 204
    /\ req["s1"].id = 1
    /\ seq.proposals = 1 /\ DOMAIN proposals = {}
    /\ seq.actions = 2
    /\ \E a \in DOMAIN actions :
          /\ DOMAIN actions = {a}
          /\ actions[a].proposal_id = None
          /\ actions[a].interaction_id = 1
          /\ actions[a].contact_id \in DOMAIN contacts
    /\ DOMAIN interactions = {1}

\* C3: in every reachable state, whatever the interleaving of the reads and
\* the commits of concurrent create, update and delete requests, every
\* interaction, proposal and action has the contact_id of an existing
\* contact, and every action's non-null proposal_id (interaction_id) is the
\* id of an existing proposal (interaction).
C3_ReferentialIntegrity ==
    /\ \A i \in DOMAIN interactions : interactions[i].contact_id \in DOMAIN contacts
    /\ \A q \in DOMAIN proposals : proposals[q].contact_id \in DOMAIN contacts
    /\ \A a \in DOMAIN actions :
          /\ actions[a].contact_id \in DOMAIN contacts
          /\ actions[a].proposal_id = None \/ actions[a].proposal_id \in DOMAIN proposals
          /\ actions[a].interaction_id = None
                \/ actions[a].interaction_id \in DOMAIN interactions

\* C3 witness: a create_interaction passed the route's contact lookup, the
\* other session's delete_contact of that contact was committed, and the
\* create was refused by the store at its commit: no interaction is stored.
C3_Witness ==
    \E s, t \in Sessions :
        /\ req[s].op = "create_interaction" /\ req[s].code = 500
        /\ req[t].op = "delete_contact" /\ req[t].code = 204
        /\ req[t].id = req[s].data.contact_id
        /\ req[t].id \notin DOMAIN contacts
        /\ seq.contacts >= req[t].id
        /\ DOMAIN interactions = {}

\* C4: in every reachable state, whatever the interleaving of the contact
\* create, update and delete requests of concurrent sessions, no two distinct
\* contacts hold the same non-null email (contacts without email are not
\* limited).
C4_EmailUnique ==
    \A a, b \in DOMAIN contacts :
        (a # b /\ contacts[a].email # NoneStr) => contacts[a].email # contacts[b].email

\* C4 witness: two requests passed the route's email lookup with the same
\* email; one is committed, the other was refused by the store at commit,
\* beside a contact without email.
C4_Witness ==
    \E s \in Sessions, c, d \in DOMAIN contacts :
        /\ req[s].pc = "done" /\ req[s].code = 500
        /\ req[s].op \in {"create_contact", "update_contact"}
        /\ req[s].data.email # NoneStr
        /\ contacts[c].email = req[s].data.email
        /\ c # req[s].id
        /\ contacts[d].email = NoneStr

\* C5: update_action with status = completed on an action whose stored
\* completed_at is null stores the current time as completed_at; an
\* update_action whose payload does not name completed_at, whatever status
\* it sets, leaves a stored non-null completed_at unchanged.
C5_CompletedAtOnce ==
    [][\A a \in DOMAIN actions :
          (/\ Served({"update_action"})
           /\ req'["s1"].id = a
           /\ req'["s1"].code = 200)
          => /\ (/\ req'["s1"].data.status = "completed"
                 /\ actions[a].completed_at = None)
                => actions'[a].completed_at = now
             /\ (/\ req'["s1"].data.completed_at = Unset
                 /\ actions[a].completed_at # None)
                => actions'[a].completed_at = actions[a].completed_at]_vars

\* C5 witness: at time 2 an update set status = completed, without naming
\* completed_at, on an action completed at time 1, which it still is.
C5_Witness ==
    /\ now = 2
    /\ req["s1"].op = "update_action" /\ req["s1"].code = 200
    /\ req["s1"].data.status = "completed"
    /\ req["s1"].data.completed_at = Unset
    /\ req["s1"].id \in DOMAIN actions
    /\ actions[req["s1"].id].completed_at = 1
    /\ actions[req["s1"].id].status = "completed"

\* C6: an update_action whose payload sets status = completed and supplies
\* a non-null completed_at = T, on an action whose stored completed_at is
\* null, stores T as completed_at.
C6_ExplicitCompletedAtKept ==
    [][\A a \in DOMAIN actions :
          (/\ Served({"update_action"})
           /\ req'["s1"].id = a
           /\ req'["s1"].code = 200
           /\ req'["s1"].data.status = "completed"
           /\ req'["s1"].data.completed_at \notin {Unset, None}
           /\ actions[a].completed_at = None)
          => actions'[a].completed_at = req'["s1"].data.completed_at]_vars

\* C7: an update of a contact, an interaction, a proposal or an action that
\* succeeds leaves every field its payload does not supply as it was (for an
\* action's completed_at: when the payload does not set status = completed
\* either), and leaves every other record of every kind unchanged.
C7_PartialUpdateFrame ==
    [][LET a == req'["s1"]
       IN  (now' = now /\ a.code = 200) =>
             /\ a.op = "update_contact" =>
                   /\ a.id \in DOMAIN contacts
                   /\ DOMAIN contacts' = DOMAIN contacts
                   /\ \A c \in DOMAIN contacts \ {a.id} : contacts'[c] = contacts[c]
                   /\ a.data.first_name = UnsetStr =>
                         contacts'[a.id].first_name = contacts[a.id].first_name
                   /\ a.data.email = UnsetStr =>
                         contacts'[a.id].email = contacts[a.id].email
                   /\ UNCHANGED <<interactions, proposals, actions>>
             /\ a.op = "update_interaction" =>
                   /\ a.id \in DOMAIN interactions
                   /\ DOMAIN interactions' = DOMAIN interactions
                   /\ \A i \in DOMAIN interactions \ {a.id} :
                         interactions'[i] = interactions[i]
                   /\ interactions'[a.id].contact_id = interactions[a.id].contact_id
                   /\ a.data.summary = UnsetStr =>
                         interactions'[a.id].summary = interactions[a.id].summary
                   /\ a.data.outcome = UnsetStr =>
                         interactions'[a.id].outcome = interactions[a.id].outcome
                   /\ UNCHANGED <<contacts, proposals, actions>>
             /\ a.op = "update_proposal" =>
                   /\ a.id \in DOMAIN proposals
                   /\ DOMAIN proposals' = DOMAIN proposals
                   /\ \A q \in DOMAIN proposals \ {a.id} :
                         proposals'[q] = proposals[q]
                   /\ proposals'[a.id].contact_id = proposals[a.id].contact_id
                   /\ a.data.title = UnsetStr =>
                         proposals'[a.id].title = proposals[a.id].title
                   /\ a.data.status = UnsetStr =>
                         proposals'[a.id].status = proposals[a.id].status
                   /\ UNCHANGED <<contacts, interactions, actions>>
             /\ a.op = "update_action" =>
                   /\ a.id \in DOMAIN actions
                   /\ DOMAIN actions' = DOMAIN actions
                   /\ \A b \in DOMAIN actions \ {a.id} : actions'[b] = actions[b]
                   /\ actions'[a.id].contact_id = actions[a.id].contact_id
                   /\ a.data.proposal_id = Unset =>
                         actions'[a.id].proposal_id = actions[a.id].proposal_id
                   /\ a.data.interaction_id = Unset =>
                         actions'[a.id].interaction_id = actions[a.id].interaction_id
                   /\ a.data.title = UnsetStr =>
                         actions'[a.id].title = actions[a.id].title
                   /\ a.data.status = UnsetStr =>
                         actions'[a.id].status = actions[a.id].status
                   /\ (a.data.completed_at = Unset /\ a.data.status # "completed") =>
                         actions'[a.id].completed_at = actions[a.id].completed_at
                   /\ UNCHANGED <<contacts, interactions, proposals>>]_vars

\* C7 witness: an update supplied only the title of a completed action; the
\* action has the new title and is still completed, at time 1, and the other
\* action is as inserted.
C7_Witness ==
    /\ req["s1"].op = "update_action" /\ req["s1"].code = 200
    /\ req["s1"].id = 1
    /\ req["s1"].data.title = "t2"
    /\ req["s1"].data.status = UnsetStr
    /\ req["s1"].data.completed_at = Unset
    /\ actions[1].title = "t2"
    /\ actions[1].status = "completed"
    /\ actions[1].completed_at = 1
    /\ actions[1].proposal_id = 1
    /\ actions[2] = SeedDb.actions[2]

\* C8: a create_interaction, create_proposal or create_action whose
\* contact_id references no existing contact is answered 404 and changes no
\* table.
C8_CreateWithoutContact ==
    [][(/\ Served({"create_interaction", "create_proposal", "create_action"})
        /\ req'["s1"].data.contact_id \notin DOMAIN contacts)
       => /\ req'["s1"].code = 404
          /\ UNCHANGED <<contacts, interactions, proposals, actions, seq>>]_vars

\* C8 witness: a create_action for contact 1, deleted earlier, was answered
\* 404 while contact 2 is present.
C8_Witness ==
    /\ req["s1"].op = "create_action" /\ req["s1"].code = 404
    /\ req["s1"].data.contact_id = 1
    /\ DOMAIN contacts = {2}

\* C9: in sequential use, a create_contact with the email of an existing
\* contact, and an update_contact of an existing contact with the email of
\* another contact, are answered 400 and change no table; an update_contact
\* of an existing contact with its own email is answered 200.
C9_EmailConflict ==
    [][LET a == req'["s1"]
       IN  /\ (/\ Served({"create_contact"})
               /\ a.data.email # NoneStr
               /\ \E c \in DOMAIN contacts : contacts[c].email = a.data.email)
              => a.code = 400 /\ UNCHANGED <<contacts, interactions, proposals, actions, seq>>
           /\ (/\ Served({"update_contact"})
               /\ a.id \in DOMAIN contacts
               /\ a.data.email \notin {UnsetStr, NoneStr}
               /\ \E c \in DOMAIN contacts \ {a.id} : contacts[c].email = a.data.email)
              => a.code = 400 /\ UNCHANGED <<contacts, interactions, proposals, actions, seq>>
           /\ (/\ Served({"update_contact"})
               /\ a.id \in DOMAIN contacts
               /\ a.data.email # NoneStr
               /\ a.data.email = contacts[a.id].email)
              => a.code = 200 /\ contacts'[a.id].email = a.data.email]_vars

\* C9 witness: an update of a contact with its own email and a new first
\* name was accepted, beside another contact with another email.
C9_Witness ==
    /\ req["s1"].op = "update_contact" /\ req["s1"].code = 200
    /\ req["s1"].id \in DOMAIN contacts
    /\ req["s1"].data.email = "a@x"
    /\ req["s1"].data.first_name = "Bob"
    /\ contacts[req["s1"].id] = [first_name |-> "Bob", email |-> "a@x"]
    /\ \E c \in DOMAIN contacts : contacts[c].email = "b@x"

\* C10: an update of an id that does not exist, of any kind of record and
\* with any payload, is answered 404 and changes no table.
C10_UpdateMissingIsNotFound ==
    [][LET a == req'["s1"]
       IN  (/\ now' = now
            /\ \/ a.op = "update_contact" /\ a.id \notin DOMAIN contacts
               \/ a.op = "update_interaction" /\ a.id \notin DOMAIN interactions
               \/ a.op = "update_proposal" /\ a.id \notin DOMAIN proposals
               \/ a.op = "update_action" /\ a.id \notin DOMAIN actions)
           => /\ a.code = 404
              /\ UNCHANGED <<contacts, interactions, proposals, actions, seq>>]_vars

\* C11: for each of the four kinds, a delete of an id that does not exist
\* finds nothing (the crud function returns False, the route answers 404)
\* and changes no table; a delete of an existing id succeeds (True, 204) and
\* the lookup by id then finds nothing, in that state and in every later one
\* (an id that was handed out and is gone stays gone).
C11_Delete ==
    [][LET a == req'["s1"]
           Rows(db) == [delete_contact |-> db.contacts,
                        delete_interaction |-> db.interactions,
                        delete_proposal |-> db.proposals,
                        delete_action |-> db.actions]
           Found(db, op, id) ==
               CASE op = "delete_contact" -> get_contact(db, id)
                 [] op = "delete_interaction" -> get_interaction(db, id)
                 [] op = "delete_proposal" -> get_proposal(db, id)
                 [] op = "delete_action" -> get_action(db, id)
       IN  /\ \A op \in DOMAIN Rows(Db) :
                Served({op}) =>
                    IF a.id \in DOMAIN Rows(Db)[op]
                    THEN a.code = 204 /\ Found(Db', op, a.id) = {}
                    ELSE /\ a.code = 404
                         /\ UNCHANGED <<contacts, interactions, proposals, actions, seq>>
           /\ \A t \in DOMAIN seq :
                \A id \in 1..seq[t] : id \notin DOMAIN Db[t] => id \notin DOMAIN Db'[t]]_vars

\* C11 witness: action 1 was deleted, then the delete of action 1 was asked
\* again and answered 404, while action 2 is present.
C11_Witness ==
    /\ req["s1"].op = "delete_action" /\ req["s1"].code = 404
    /\ req["s1"].id = 1
    /\ seq.actions = 2
    /\ DOMAIN actions = {2}

\* C12: when a session has listed page by page from skip = 0 up to an empty
\* page, the store unchanged, the pages together hold every record that
\* satisfies the filters exactly once.
C12_PagesPartition ==
    LET a == req["s1"]
    IN  (a.pc = "done" /\ a.op \in ListOps /\ a.result.items = <<>>)
        => /\ \A i \in DOMAIN Seen(a) : Seen(a)[i] \in Satisfying(a)
           /\ \A x \in Satisfying(a) :
                 Cardinality({i \in DOMAIN Seen(a) : Seen(a)[i] = x}) = 1

\* C13: a list operation returns as total the number of records that satisfy
\* the filters, whatever skip and limit, and a page of exactly
\* min(limit, max(0, total - skip)) items, each of which satisfies them.
C13_TotalAndPage ==
    LET a == req["s1"]
        left == IF a.result.total > a.data.skip
                THEN a.result.total - a.data.skip ELSE 0
    IN  (a.pc = "done" /\ a.op \in ListOps)
        => /\ a.result.total = Cardinality(Satisfying(a))
           /\ Len(a.result.items) = (IF a.data.limit < left THEN a.data.limit ELSE left)
           /\ \A i \in DOMAIN a.result.items : a.result.items[i] \in Satisfying(a)

\* C13 witness: the second page of get_proposals with limit 1, one of the
\* two draft proposals, the total still 2.
C13_Witness ==
    /\ req["s1"].pc = "done" /\ req["s1"].op = "get_proposals"
    /\ req["s1"].data.skip = 1 /\ req["s1"].data.limit = 1
    /\ req["s1"].data.status = "draft"
    /\ req["s1"].result.total = 2
    /\ Len(req["s1"].result.items) = 1
    /\ Len(Seen(req["s1"])) = 2

\* C14: the records a list operation counts, and returns when one page holds
\* them all, are exactly the stored records that satisfy every supplied
\* filter; get_actions with overdue_only and status = completed matches none.
C14_FiltersConjunctive ==
    LET a == req["s1"]
        Items == {a.result.items[i] : i \in DOMAIN a.result.items}
    IN  (a.pc = "done" /\ a.op \in ListOps)
        => /\ Cardinality(Satisfying(a)) = a.result.total
           /\ (a.data.skip = 0 /\ a.result.total <= a.data.limit)
                 => Items = Satisfying(a)
           /\ (/\ a.op = "get_actions" /\ a.data.overdue_only
               /\ a.data.status = "completed")
                 => a.result = [items |-> <<>>, total |-> 0]

\* C14 witness: get_actions with overdue_only and status = completed found
\* nothing in a store that holds an overdue pending action and a completed
\* action that was due at time 0.
C14_Witness ==
    /\ req["s1"].pc = "done" /\ req["s1"].op = "get_actions"
    /\ req["s1"].data.overdue_only /\ req["s1"].data.status = "completed"
    /\ req["s1"].data.contact_id = None /\ req["s1"].data.priority = NoneStr
    /\ req["s1"].result.total = 0
    /\ DOMAIN actions = {1, 2}
    /\ actions[1].status = "pending" /\ actions[1].due_at = 0
    /\ actions[2].status = "completed" /\ actions[2].due_at = 0

\* C15: a query scoped by a contact_id that no contact has, 0 included,
\* returns nothing: the list functions an empty page with total = 0, the
\* named queries an empty list, the grouped counts an empty mapping.
C15_MissingContactScopeIsEmpty ==
    LET a == req["s1"]
    IN  (/\ a.pc = "done"
         /\ a.op \in {"get_actions", "get_pending_actions", "get_overdue_actions",
                      "get_upcoming_actions", "count_actions_by_status",
                      "count_actions_by_type", "count_actions_by_priority"}
         /\ a.data.contact_id # None
         /\ a.data.contact_id \notin DOMAIN contacts)
        => IF a.op = "get_actions"
           THEN a.result.items = <<>> /\ a.result.total = 0
           ELSE DOMAIN a.result = {}

\* C16: with the tags filter alone, get_contacts counts, and returns when
\* one page holds them all, exactly the contacts whose tags include every
\* filter tag (no filter tag: every contact; no tags: only then).
C16_TagsContainment ==
    LET a == req["s1"]
        TagSet(l) == IF l = NoneList THEN {} ELSE {l[i] : i \in DOMAIN l}
        Tagged == {c \in DOMAIN contacts :
                      TagSet(a.data.tags) \subseteq TagSet(contacts[c].tags)}
        Items == {a.result.items[i] : i \in DOMAIN a.result.items}
    IN  (/\ a.pc = "done" /\ a.op = "get_contacts"
         /\ a.data.status = NoneStr /\ a.data.search = NoneStr)
        => /\ a.result.total = Cardinality(Tagged)
           /\ Items \subseteq Tagged
           /\ (a.data.skip = 0 /\ a.result.total <= a.data.limit) => Items = Tagged

\* C16 witness: the filter [tech, vip] returned contact 2, tagged
\* [vip, tech], and not contact 1, tagged [vip].
C16_Witness ==
    /\ req["s1"].pc = "done" /\ req["s1"].op = "get_contacts"
    /\ req["s1"].data.status = NoneStr /\ req["s1"].data.search = NoneStr
    /\ req["s1"].data.tags = <<"tech", "vip">>
    /\ DOMAIN contacts = {1, 2}
    /\ contacts[1].tags = <<"vip">> /\ contacts[2].tags = <<"vip", "tech">>
    /\ req["s1"].result = [items |-> <<2>>, total |-> 1]

\* C17: at time now, get_overdue_actions and get_actions(overdue_only = true)
\* return only pending actions with a non-null due_at earlier than now, each
\* once; up to the limit they return every such action of the scope; and no
\* action get_overdue_actions returns is returned by a get_upcoming_actions
\* evaluated at the same time.
C17_Overdue ==
    LET a == req["s1"]
        Overdue == {x \in DOMAIN actions :
                       /\ actions[x].status = "pending"
                       /\ actions[x].due_at # None
                       /\ actions[x].due_at < now}
        InScope == {x \in Overdue :
                       a.data.contact_id # None =>
                           actions[x].contact_id = a.data.contact_id}
        items == IF a.op = "get_actions" THEN a.result.items ELSE a.result
        Items == {items[i] : i \in DOMAIN items}
    IN  (/\ a.pc = "done"
         /\ \/ a.op = "get_overdue_actions"
            \/ a.op = "get_actions" /\ a.data.overdue_only)
        => /\ Items \subseteq Overdue
           /\ Cardinality(Items) = Len(items)
           /\ Len(items) <= a.data.limit
           /\ Len(items) < a.data.limit =>
                 {x \in InScope : a.op = "get_actions" =>
                     (a.data.status # NoneStr => actions[x].status = a.data.status)}
                 \subseteq Items
           /\ a.op = "get_overdue_actions" =>
                 \A q \in UpcomingLists :
                     \A u \in get_upcoming_actions(Db, now, q) :
                         \A i \in DOMAIN u.result : u.result[i] \notin Items

\* C17 witness: get_overdue_actions, with room for two, returned action 1
\* alone, due at time 0; action 2 is pending and due now.
C17_Witness ==
    /\ req["s1"].pc = "done" /\ req["s1"].op = "get_overdue_actions"
    /\ req["s1"].data.limit = 2
    /\ req["s1"].data.contact_id = None
    /\ req["s1"].result = <<1>>
    /\ DOMAIN actions = {1, 2}
    /\ actions[1].due_at = 0
    /\ actions[2].status = "pending" /\ actions[2].due_at = now

\* C18: at time now, get_expired_proposals returns only proposals whose
\* expires_at is non-null and earlier than now and whose status is draft or
\* submitted, each once, and up to the limit it returns every such proposal.
C18_ExpiredProposals ==
    LET a == req["s1"]
        Expired == {x \in DOMAIN proposals :
                       /\ proposals[x].expires_at # None
                       /\ proposals[x].expires_at < now
                       /\ proposals[x].status \in {"draft", "submitted"}}
        Items == {a.result[i] : i \in DOMAIN a.result}
    IN  (a.pc = "done" /\ a.op = "get_expired_proposals")
        => /\ Items \subseteq Expired
           /\ Cardinality(Items) = Len(a.result)
           /\ Len(a.result) <= a.data.limit
           /\ Len(a.result) < a.data.limit => Expired \subseteq Items

\* C18 witness: with room for two, the query returned proposal 1 alone,
\* submitted and expired at time 0; proposal 2 expired then too, but is won.
C18_Witness ==
    /\ req["s1"].pc = "done" /\ req["s1"].op = "get_expired_proposals"
    /\ req["s1"].data.limit = 2
    /\ req["s1"].result = <<1>>
    /\ DOMAIN proposals = {1, 2}
    /\ proposals[1].status = "submitted" /\ proposals[1].expires_at = 0
    /\ proposals[2].status = "won" /\ proposals[2].expires_at = 0

\* C19: the proposal stats report, for no scope or the scope of an existing
\* contact, has an entry for every declared status, with the number of the
\* scope's proposals of that status and the sum of their non-null values;
\* total_count is the number of proposals of the scope and the sum of the
\* counts, total_value the sum of the entries' total_value.
C19_ProposalStats ==
    LET a == req["s1"]
        S == {x \in DOMAIN proposals :
                 a.data.contact_id # None =>
                     proposals[x].contact_id = a.data.contact_id}
        Of(st) == {x \in S : proposals[x].status = st}
        Valued(st) == {x \in Of(st) : proposals[x].value # None}
        by == a.result.by_status
    IN  (/\ a.pc = "done" /\ a.op = "get_proposal_stats"
         /\ a.data.contact_id \in {None} \cup DOMAIN contacts)
        => /\ a.code = 200
           /\ DOMAIN by = {"draft", "submitted", "won", "lost", "ignored", "expired"}
           /\ \A st \in DOMAIN by :
                 /\ by[st].count = Cardinality(Of(st))
                 /\ by[st].total_value = 5 * Cardinality(Valued(st))
           /\ a.result.total_count = Cardinality(S)
           /\ a.result.total_count =
                 by["draft"].count + by["submitted"].count + by["won"].count
                    + by["lost"].count + by["ignored"].count + by["expired"].count
           /\ a.result.total_value =
                 by["draft"].total_value + by["submitted"].total_value
                    + by["won"].total_value + by["lost"].total_value
                    + by["ignored"].total_value + by["expired"].total_value

\* C19 witness: the report for contact 1, which has two draft proposals, one
\* of value 5 and one without value, and no proposal of another status.
C19_Witness ==
    /\ req["s1"].pc = "done" /\ req["s1"].op = "get_proposal_stats"
    /\ req["s1"].code = 200
    /\ req["s1"].data.contact_id = 1
    /\ DOMAIN proposals = {1, 2}
    /\ proposals[1] = [contact_id |-> 1, title |-> "t1", status |-> "draft",
                       value |-> 5, expires_at |-> None]
    /\ proposals[2] = [proposals[1] EXCEPT !.value = None]
    /\ req["s1"].result.by_status["draft"] = [count |-> 2, total_value |-> 5]
    /\ req["s1"].result.by_status["won"] = [count |-> 0, total_value |-> 0]
    /\ req["s1"].result.total_count = 2

\* C20: count_actions_by_type returns a mapping whose keys are the action
\* types that occur among the actions of the scope, each with the number of
\* those actions.
C20_CountByType ==
    LET a == req["s1"]
        S == {x \in DOMAIN actions :
                 a.data.contact_id # None =>
                     actions[x].contact_id = a.data.contact_id}
    IN  (/\ a.pc = "done"
         /\ a.op = "count_actions_by_type"
         /\ a.data.contact_id \in {None} \cup DOMAIN contacts)
        => /\ a.code = 200
           /\ DOMAIN a.result = {actions[x].action_type : x \in S}
           /\ \A k \in DOMAIN a.result :
                 a.result[k] = Cardinality({x \in S : actions[x].action_type = k})

\* C21: count_contacts_by_status counts the contacts of each status,
\* count_actions_by_status the actions of the scope of each status,
\* count_actions_by_priority the pending actions of the scope of each
\* priority; in each result a key is present iff its count is at least 1.
C21_GroupedCounts ==
    LET a == req["s1"]
        Scope == {x \in DOMAIN actions :
                     a.data.contact_id # None =>
                         actions[x].contact_id = a.data.contact_id}
        Sparse(Keys, Of(_)) ==
            /\ DOMAIN a.result \subseteq Keys
            /\ \A k \in Keys :
                  /\ k \in DOMAIN a.result <=> Cardinality(Of(k)) >= 1
                  /\ k \in DOMAIN a.result => a.result[k] = Cardinality(Of(k))
        ContactsOf(k) == {c \in DOMAIN contacts : contacts[c].status = k}
        WithStatus(k) == {x \in Scope : actions[x].status = k}
        PendingOf(k) == {x \in Scope : /\ actions[x].status = "pending"
                                       /\ actions[x].priority = k}
    IN  /\ (a.pc = "done" /\ a.op = "count_contacts_by_status")
           => Sparse({"lead", "prospect", "client", "lost", "archived"}, ContactsOf)
        /\ (a.pc = "done" /\ a.op = "count_actions_by_status")
           => Sparse({"pending", "completed", "cancelled"}, WithStatus)
        /\ (a.pc = "done" /\ a.op = "count_actions_by_priority")
           => Sparse({"low", "medium", "high", "urgent"}, PendingOf)

\* C21 witness: count_actions_by_priority answered {medium: 1} for a store
\* with a pending medium action and a completed high action.
C21_Witness ==
    /\ req["s1"].pc = "done" /\ req["s1"].op = "count_actions_by_priority"
    /\ req["s1"].data.contact_id = None
    /\ DOMAIN actions = {1, 2}
    /\ actions[1].status = "pending" /\ actions[1].priority = "medium"
    /\ actions[2].status = "completed" /\ actions[2].priority = "high"
    /\ DOMAIN req["s1"].result = {"medium"}
    /\ req["s1"].result["medium"] = 1

\* C22: a create, update or delete that the store refuses at commit (the
\* request is answered 500) leaves every table as it was before the request.
C22_AllOrNothing ==
    [][(Served(Writes) /\ req'["s1"].pc = "done" /\ req'["s1"].code = 500)
          => UNCHANGED tables]_vars

\* C22 witness: an update of a contact that set first_name to null and the
\* email to b@x was refused, and the contact's email is not b@x.
C22_Witness ==
    /\ req["s1"].pc = "done" /\ req["s1"].code = 500
    /\ req["s1"].op = "update_contact"
    /\ req["s1"].data = [first_name |-> NoneStr, email |-> "b@x"]
    /\ req["s1"].id \in DOMAIN contacts
    /\ contacts[req["s1"].id].email # "b@x"

\* C23: every session get_db creates is closed exactly once: while a request
\* runs its session has been created and not closed, from then on the
\* request eventually reaches its end, and at its end every session created
\* for it has been closed once.
C23_SessionClosed ==
    /\ [](\A s \in Sessions :
             /\ InSession(req[s]) => Closed(req[s]) + 1 = Opened(req[s])
             /\ ~InSession(req[s]) => Closed(req[s]) = Opened(req[s]))
    /\ \A s \in Sessions : InSession(req[s]) ~> (req[s].pc = "done")

\* C23 witness: a request that the store refused at commit and a request
\* that the route rejected have ended, each with its session closed, after a
\* request that returned normally.
C23_Witness ==
    /\ req["s1"].pc = "done" /\ req["s1"].code = 500
    /\ req["s1"].opened = 2 /\ req["s1"].closed = 2
    /\ req["s2"].pc = "done" /\ req["s2"].code \in {400, 404}
    /\ req["s2"].closed = 1
    /\ DOMAIN contacts # {}

\* C24: for a valid request (skip >= 0, limit >= 1, dates absent or in ISO
\* format) the route that lists actions answers 200 with a page of at most
\* limit items, the total and page = floor(skip / limit) + 1.
C24_ListActionsWorks ==
    LET a == req["s1"]
        Iso == {NoneStr, "1970-01-01T00:00:00", "1970-01-01T00:00:01"}
    IN  (/\ a.pc = "done" /\ a.op = "list_actions"
         /\ a.data.start_date \in Iso /\ a.data.end_date \in Iso)
        => /\ a.code = 200
           /\ Len(a.result.items) <= a.data.limit
           /\ a.result.total <= Cardinality(DOMAIN actions)
           /\ a.result.page = (a.data.skip \div a.data.limit) + 1

\* C25: when a contact request that names an email commits while another
\* contact holds this email (a concurrent request took it after this one's
\* lookup), the request is answered with the conflict (400), not with the
\* store's error.
C25_RaceIsConflict ==
    [][\A s \in Sessions :
          (/\ req[s].pc = "commit" /\ req'[s].pc = "done"
           /\ req[s].op \in {"create_contact", "update_contact"}
           /\ req[s].data.email \notin {NoneStr, UnsetStr}
           /\ \E c \in DOMAIN contacts \ {req[s].id} :
                 contacts[c].email = req[s].data.email)
          => req'[s].code = 400]_vars

\* C26: with concurrent updates that set status = completed without naming
\* completed_at, a committed non-null completed_at is not replaced by
\* another time when such an update commits.
C26_StampedOnce ==
    [][\A s \in Sessions :
          (/\ req[s].pc = "commit" /\ req'[s].pc = "done"
           /\ req[s].op = "update_action"
           /\ req[s].data.status = "completed"
           /\ req[s].data.completed_at = Unset
           /\ req[s].id \in DOMAIN actions
           /\ actions[req[s].id].completed_at # None)
          => actions'[req[s].id].completed_at = actions[req[s].id].completed_at]_vars

\* C27: in every list of actions returned, for two consecutive items a, b:
\* a has the higher priority (urgent > high > medium > low), or they have
\* the same priority and a is due no later than b or b has no due_at.
C27_ActionOrder ==
    LET a == req["s1"]
        items == IF a.op = "get_actions" THEN a.result.items ELSE a.result
        rank == [low |-> 0, medium |-> 1, high |-> 2, urgent |-> 3]
        InOrderOf(x, y) ==
            \/ rank[actions[x].priority] > rank[actions[y].priority]
            \/ /\ rank[actions[x].priority] = rank[actions[y].priority]
               /\ \/ actions[y].due_at = None
                  \/ /\ actions[x].due_at # None
                     /\ actions[x].due_at <= actions[y].due_at
    IN  (/\ a.pc = "done"
         /\ a.op \in {"get_actions", "get_actions_by_contact",
                      "get_pending_actions", "get_overdue_actions",
                      "get_upcoming_actions"})
        => \A i \in 1..(Len(items) - 1) : InOrderOf(items[i], items[i + 1])

\* C27 witness: get_pending_actions returned the high action, which has no
\* due_at, before the low one, which is due at time 0.
C27_Witness ==
    /\ req["s1"].pc = "done" /\ req["s1"].op = "get_pending_actions"
    /\ Len(req["s1"].result) = 2
    /\ actions[req["s1"].result[1]].priority = "high"
    /\ actions[req["s1"].result[2]].priority = "low"
    /\ actions[req["s1"].result[1]].due_at = None
    /\ actions[req["s1"].result[2]].due_at = 0

\* C28: the tables change only in a step that serves a write, never in a
\* step that answers a read or lets time pass; and the status of a proposal
\* (of an action) changes only in a step that serves an update_proposal
\* (update_action) of it whose payload names status.
C28_ReadsAndStatus ==
    [][/\ tables' # tables =>
             /\ now' = now /\ req'["s2"] = req["s2"]
             /\ req'["s1"].op \in Writes
       /\ \A p \in DOMAIN proposals \cap DOMAIN proposals' :
             proposals'[p].status # proposals[p].status =>
                 /\ now' = now
                 /\ req'["s1"].op = "update_proposal" /\ req'["s1"].id = p
                 /\ req'["s1"].data.status # UnsetStr
       /\ \A a \in DOMAIN actions \cap DOMAIN actions' :
             actions'[a].status # actions[a].status =>
                 /\ now' = now
                 /\ req'["s1"].op = "update_action" /\ req'["s1"].id = a
                 /\ req'["s1"].data.status # UnsetStr]_vars

\* C28 witness: at time 2 the proposal, whose expiry was at time 1, has been
\* listed by get_expired_proposals and renamed by an update that does not
\* name status, and is still a draft.
C28_Witness ==
    /\ now = 2
    /\ req["s2"].pc = "done" /\ req["s2"].op = "get_expired_proposals"
    /\ req["s2"].result = <<1>>
    /\ req["s1"].pc = "done" /\ req["s1"].op = "update_proposal"
    /\ req["s1"].code = 200 /\ req["s1"].data.status = UnsetStr
    /\ proposals[1].title = "t2"
    /\ proposals[1].status = "draft" /\ proposals[1].expires_at = 1

\* C29: every action whose status is completed has a non-null completed_at.
C29_CompletedIsStamped ==
    \A a \in DOMAIN actions :
        actions[a].status = "completed" => actions[a].completed_at # None

\* C30: a delete_contact of c that is served removes no other contact and no
\* interaction, proposal or action whose contact_id is not c.
C30_DeleteContactFrame ==
    [][(Served({"delete_contact"}) /\ req'["s1"].code = 204)
          => LET c == req'["s1"].id
             IN  /\ DOMAIN contacts \ {c} \subseteq DOMAIN contacts'
                 /\ \A i \in DOMAIN interactions :
                       interactions[i].contact_id # c => i \in DOMAIN interactions'
                 /\ \A p \in DOMAIN proposals :
                       proposals[p].contact_id # c => p \in DOMAIN proposals'
                 /\ \A a \in DOMAIN actions :
                       actions[a].contact_id # c => a \in DOMAIN actions']_vars

====
